---- MODULE Spec2Model ----
(***************************************************************************)
(* sqlfs: the PostgreSQL wire protocol server in front of a swappable,     *)
(* read-only SQLite handle (internal/pgserver), as a state machine.        *)
(*                                                                         *)
(* Processes: the Serve accept loop, one goroutine per accepted connection *)
(* (handleConn), the callers of Server.Reload, the caller of Server.Close  *)
(* and the clients, which choose the packets they send.                    *)
(***************************************************************************)
EXTENDS Integers, Sequences, FiniteSets, TLC

\* ------------------------------------------------------------------ bounds
\* Store handles ever opened by one server (the one New opens included).
MaxHandles == 3
\* Frontend messages one client sends in the query loop.
MaxMsgs == 1
\* The same, where the client chooses among all the messages.
MaxLoopMsgs == 3
\* The same, where the client chooses among the extended-protocol messages.
MaxExtMsgs == 5
\* Change events the file system delivers to the watcher.
MaxEvents == 4

Conns == {"c1", "c2"}
Reloaders == {"r1", "r2"}

NoHandle == 0

\* ------------------------------------------------------------------ state
VARIABLES
    opts,       \* Server.opts: [username, password]
    db,         \* Server.db: the published handle (an index into handles)
    handles,    \* every *sql.DB opened so far: [path, closes, writes]
    decl,       \* the declared type name of the column the data sets hold
    muW,        \* Server.mu: the holder of the write lock, or "none"
    muR,        \* Server.mu: the connections holding the read lock
    listener,   \* Server.listener: "nil", "open" or "closed"
    ctxDone,    \* the context handed to Serve is cancelled
    servePc,    \* Serve: "init", "accept" or "returned"
    serveRes,   \* what Serve returned: "none", "nil" or "error"
    closePc,    \* Close: "idle", "lock", "locked" or "done"
    rpc,        \* Reload, per caller: "idle", "open", "lock", "locked", "close";
                \* from "open" to "idle" it returns the error, from "close" nil
    rpath,      \* Reload: its dbPath argument
    rnew,       \* Reload: newDB
    rold,       \* Reload: old
    lastOk,     \* history: the last swap, and whether its Reload has returned
    pc,         \* handleConn, per connection: where the goroutine stands
    out,        \* what the server has written to the connection
    cuser,      \* the user name of the client's StartupMessage
    cresp,      \* the client's answer to the password challenge
    broken,     \* the client end is gone: reads and writes fail
    prepared,   \* connState.preparedQuery
    query,      \* the text handed to executeQuery
    ext,        \* the running statement came from Execute (no ReadyForQuery)
    connDb,     \* the handle the running statement captured (local db)
    rowIdx,     \* executeQuery: rowCount
    used,       \* history: the handles the running statement has read from
    budget,     \* frontend messages the client may still send
    recv,       \* history: the packets the server has read from the connection
    wpc,        \* Watcher.Start and the callback of the serve command: "select",
                \* "build", "rename", "reload", "reloading" or "returned"
    wPending,   \* Watcher.Start: pending
    wTimerOn,   \* Watcher.Start: timer is set and has not expired
    wTimerC,    \* Watcher.Start: timer.C holds a value
    wQueue,     \* change events waiting on fw.Events
    wDelivered, \* history: change events delivered so far
    wDirty,     \* history: no callback has started since the last change event
    wSince,     \* history: change events read since the last callback started
    wCalls,     \* history: callbacks started
    wStaged     \* history: what the running callback has done: "none", "built"
                \* (builder.Build succeeded) or "renamed" (os.Rename too)

srvVars == <<opts, decl, db, handles, muW, muR, listener, ctxDone, servePc, serveRes, closePc>>
rlVars == <<rpc, rpath, rnew, rold, lastOk>>
connVars == <<pc, out, cuser, cresp, broken, prepared, query, ext, connDb, rowIdx, used, budget,
              recv>>
wVars ==
    <<wpc, wPending, wTimerOn, wTimerC, wQueue, wDelivered, wDirty, wSince, wCalls, wStaged>>
vars == <<srvVars, rlVars, connVars, wVars>>

\* ------------------------------------------------------------------ texts
\* A SQL text is a sequence of characters. "q" stands for a SELECT the engine
\* accepts, "x" for a statement it rejects, "w" for a statement that writes.
IsSpace(ch) == ch \in {" ", "\t", "\n"}

RECURSIVE TrimLeft(_)
TrimLeft(s) ==
    IF s # <<>> /\ IsSpace(Head(s)) THEN TrimLeft(Tail(s)) ELSE s

RECURSIVE TrimRight(_)
TrimRight(s) ==
    IF s # <<>> /\ IsSpace(s[Len(s)]) THEN TrimRight(SubSeq(s, 1, Len(s) - 1)) ELSE s

\* strings.TrimSpace
TrimSpace(s) == TrimRight(TrimLeft(s))

\* A query loop for which only the text without a character is empty.
IsEmptyQueryNoText(t) == t = <<>>

\* The statement is empty for the query loop.
IsEmptyQuery(t) == t = <<>> \/ t = <<";">>

\* ------------------------------------------------------------------ store
Memory == ":memory:"
Paths == {Memory, "a.db", "b.db", "e.db"}

\* openSQLite pings a file it opens, and the ping may fail; an in-memory
\* database is opened without a ping.
OpenOutcomes(path) == IF path = "" \/ path = Memory THEN {TRUE} ELSE {TRUE, FALSE}

\* The rows that the SELECT "q" finds in the data set at a path.
NRows(path) == CASE path = "b.db" -> 2 [] path = "e.db" -> 0 [] OTHER -> 1

IsOpen(h) == h \in 1..Len(handles) /\ handles[h].closes = 0

\* (*sql.DB).Close on handle h.
CloseHandle(hs, h) == [hs EXCEPT ![h].closes = @ + 1]

\* The text is a statement that adds a row to what the SELECT "q" finds.
IsWrite(text) == text = <<"w">>

\* openSQLite opens a file with mode=ro and an in-memory database as it is:
\* only the latter takes writes.
Writable(h) == handles[h].path = "" \/ handles[h].path = Memory

\* db.Query(text) on handle h succeeds: the handle is open and the engine
\* accepts the text; it refuses to write through a read-only handle.
QueryOk(h, text) == IsOpen(h) /\ (text = <<"q">> \/ (IsWrite(text) /\ Writable(h)))

\* The rows the SELECT "q" finds through handle h.
HandleRows(h) == NRows(handles[h].path) + handles[h].writes

\* ------------------------------------------------------------------ type mapper
oidInt8 == 20
oidFloat8 == 701
oidBool == 16
oidText == 25
oidBytea == 17

\* A type name is a sequence of characters.
LowerCase ==
    <<"a", "b", "c", "d", "e", "f", "g", "h", "i", "j", "k", "l", "m",
      "n", "o", "p", "q", "r", "s", "t", "u", "v", "w", "x", "y", "z">>
UpperCase ==
    <<"A", "B", "C", "D", "E", "F", "G", "H", "I", "J", "K", "L", "M",
      "N", "O", "P", "Q", "R", "S", "T", "U", "V", "W", "X", "Y", "Z">>

\* strings.ToUpper
ToUpper(s) ==
    [i \in 1..Len(s) |->
        IF \E k \in 1..26 : LowerCase[k] = s[i]
        THEN UpperCase[CHOOSE k \in 1..26 : LowerCase[k] = s[i]]
        ELSE s[i]]

\* The names of each case of goTypeToOID.
IntNames ==
    {<<"I", "N", "T", "E", "G", "E", "R">>, <<"I", "N", "T">>, <<"I", "N", "T", "2">>,
     <<"I", "N", "T", "4">>, <<"I", "N", "T", "8">>, <<"B", "I", "G", "I", "N", "T">>,
     <<"S", "M", "A", "L", "L", "I", "N", "T">>}
FloatNames ==
    {<<"R", "E", "A", "L">>, <<"F", "L", "O", "A", "T">>,
     <<"F", "L", "O", "A", "T", "4">>, <<"F", "L", "O", "A", "T", "8">>,
     <<"D", "O", "U", "B", "L", "E">>, <<"N", "U", "M", "E", "R", "I", "C">>,
     <<"D", "E", "C", "I", "M", "A", "L">>}
BoolNames == {<<"B", "O", "O", "L">>, <<"B", "O", "O", "L", "E", "A", "N">>}
BlobNames == {<<"B", "L", "O", "B">>}

\* A Type Mapper that compares the name as it is written.
goTypeToOIDAsWritten(dbTypeName) ==
    CASE dbTypeName \in IntNames -> oidInt8
      [] dbTypeName \in FloatNames -> oidFloat8
      [] dbTypeName \in BoolNames -> oidBool
      [] dbTypeName \in BlobNames -> oidBytea
      [] OTHER -> oidText

goTypeToOID(dbTypeName) ==
    CASE ToUpper(dbTypeName) \in IntNames -> oidInt8
      [] ToUpper(dbTypeName) \in FloatNames -> oidFloat8
      [] ToUpper(dbTypeName) \in BoolNames -> oidBool
      [] ToUpper(dbTypeName) \in BlobNames -> oidBytea
      [] OTHER -> oidText

\* The declared type of the column in the data sets the server usually holds.
Integer == <<"I", "N", "T", "E", "G", "E", "R">>

\* The type names a column may be declared with: the names goTypeToOID
\* knows, some of them in other spellings, and names it does not know, the
\* absent name among them.
DeclTypes ==
    IntNames \cup FloatNames \cup BoolNames \cup BlobNames
    \cup {<<"i", "n", "t", "e", "g", "e", "r">>, <<"I", "n", "t">>,
          <<"i", "n", "t", "8">>, <<"b", "i", "g", "I", "n", "t">>,
          <<"r", "e", "a", "l">>, <<"F", "l", "o", "a", "t", "4">>,
          <<"d", "o", "u", "b", "l", "e">>, <<"N", "u", "m", "e", "r", "i", "c">>,
          <<"b", "o", "o", "l">>, <<"B", "o", "o", "l", "e", "a", "n">>,
          <<"b", "l", "o", "b">>, <<"b", "L", "o", "B">>}
    \cup {<<>>, <<"T", "E", "X", "T">>, <<"t", "e", "x", "t">>,
          <<"V", "A", "R", "C", "H", "A", "R">>, <<"C", "H", "A", "R">>,
          <<"D", "A", "T", "E">>, <<"I", "N", "T", "S">>, <<" ", "I", "N", "T">>,
          <<"T", "I", "N", "Y", "I", "N", "T">>, <<"B", "L", "O", "B", "S">>,
          <<"B", "O", "O", "L", "E", "A", "N", "S">>,
          <<"F", "L", "O", "A", "T", "1", "6">>}

\* ------------------------------------------------------------------ messages
AuthenticationOk == [type |-> "AuthenticationOk"]
AuthenticationCleartextPassword == [type |-> "AuthenticationCleartextPassword"]
SSLReject == [type |-> "N"]
ParameterStatus(n, v) == [type |-> "ParameterStatus", name |-> n, value |-> v]
BackendKeyData == [type |-> "BackendKeyData", pid |-> 1, secret |-> 0]
ReadyForQuery == [type |-> "ReadyForQuery", status |-> "I"]
ErrorResponse(sev, code) == [type |-> "ErrorResponse", severity |-> sev, code |-> code]
EmptyQueryResponse == [type |-> "EmptyQueryResponse"]
ParseComplete == [type |-> "ParseComplete"]
BindComplete == [type |-> "BindComplete"]
ParameterDescription == [type |-> "ParameterDescription"]
NoData == [type |-> "NoData"]
\* A result is described and sent as the data set at the handle's path holds
\* it; the column is announced with the OID of its declared type.
\* A column announced in the format the client may have asked for.
FieldDescriptionBinary(name) ==
    [tableOID |-> 0, attr |-> 0, oid |-> goTypeToOID(name), size |-> -1, modifier |-> -1,
     format |-> 1]

\* pgproto3.FieldDescription as executeQuery fills it for a column declared
\* with the type name.
FieldDescription(name) ==
    [tableOID |-> 0, attr |-> 0, oid |-> goTypeToOID(name), size |-> -1, modifier |-> -1,
     format |-> 0]

RowDescription(path) ==
    [type |-> "RowDescription", of |-> path, fields |-> <<FieldDescription(decl)>>]
\* The description of the result of a statement that returns no column.
NoColumns(path) == [type |-> "RowDescription", of |-> path, fields |-> <<>>]
DataRow(path, i) == [type |-> "DataRow", of |-> path, row |-> i]
\* A completion whose tag is the same for every result.
CommandCompleteSelectOne(n) == [type |-> "CommandComplete", tag |-> <<"SELECT", 1>>]

\* fmt.Sprintf("SELECT %d", rowCount)
CommandComplete(n) == [type |-> "CommandComplete", tag |-> <<"SELECT", n>>]

\* Announcements that begin with the key data.
PostAuthKeyFirst ==
    << BackendKeyData,
       ParameterStatus("server_version", "14.0"),
       ParameterStatus("client_encoding", "UTF8"),
       ParameterStatus("server_encoding", "UTF8"),
       ParameterStatus("DateStyle", "ISO, MDY"),
       ParameterStatus("integer_datetimes", "on"),
       ReadyForQuery >>

\* The announcements that follow a successful authentication.
PostAuth ==
    << ParameterStatus("server_version", "14.0"),
       ParameterStatus("client_encoding", "UTF8"),
       ParameterStatus("server_encoding", "UTF8"),
       ParameterStatus("DateStyle", "ISO, MDY"),
       ParameterStatus("integer_datetimes", "on"),
       BackendKeyData,
       ReadyForQuery >>

HasType(c, t) == \E i \in 1..Len(out[c]) : out[c][i].type = t

\* ------------------------------------------------------------------ Serve
\* net.Listen succeeds: s.listener = ln, and the accept loop starts.
ServeListen ==
    /\ servePc = "init"
    /\ listener' = "open"
    /\ servePc' = "accept"
    /\ UNCHANGED <<wVars, opts, decl, db, handles, muW, muR, ctxDone, serveRes, closePc, rlVars, connVars>>

\* net.Listen fails (the port is taken): Serve returns the error.
ServeListenFail ==
    /\ servePc = "init"
    /\ servePc' = "returned"
    /\ serveRes' = "error"
    /\ UNCHANGED <<wVars, opts, decl, db, handles, muW, muR, listener, ctxDone, closePc, rlVars, connVars>>

\* The caller of Serve cancels the context.
CtxCancel ==
    /\ ~ctxDone
    /\ ctxDone' = TRUE
    /\ UNCHANGED <<wVars, opts, decl, db, handles, muW, muR, listener, servePc, serveRes, closePc, rlVars, connVars>>

\* A shutdown that closes the accepted connections with the listener.
ServeCtxCloseDropsConns ==
    /\ ctxDone
    /\ servePc = "accept"
    /\ listener = "open"
    /\ listener' = "closed"
    /\ pc' = [c \in Conns |-> IF pc[c] = "unaccepted" THEN pc[c] ELSE "closed"]
    /\ UNCHANGED <<wVars, opts, decl, db, handles, muW, muR, ctxDone, servePc, serveRes, closePc, rlVars,
                   out, cuser, cresp, broken, prepared, query, ext, connDb, rowIdx, used,
                   budget, recv>>

\* The goroutine Serve starts: <-ctx.Done(); ln.Close().
ServeCtxClose ==
    /\ ctxDone
    /\ servePc = "accept"
    /\ listener = "open"
    /\ listener' = "closed"
    /\ UNCHANGED <<wVars, opts, decl, db, handles, muW, muR, ctxDone, servePc, serveRes, closePc, rlVars, connVars>>

\* ln.Accept returns a connection: go s.handleConn(conn).
ServeAccept(c) ==
    /\ servePc = "accept"
    /\ listener = "open"
    /\ pc[c] = "unaccepted"
    /\ pc' = [pc EXCEPT ![c] = "startup"]
    /\ UNCHANGED <<wVars, srvVars, rlVars, out, cuser, cresp, broken, prepared, query, ext, connDb, rowIdx, used, budget, recv>>

\* A Serve that takes every failure of Accept for a shutdown.
ServeAcceptErrAlwaysNil ==
    /\ servePc = "accept"
    /\ listener = "closed"
    /\ servePc' = "returned"
    /\ serveRes' = "nil"
    /\ UNCHANGED <<wVars, opts, decl, db, handles, muW, muR, listener, ctxDone, closePc, rlVars, connVars>>

\* ln.Accept fails on the closed listener: nil when the context is cancelled,
\* the error otherwise.
ServeAcceptErr ==
    /\ servePc = "accept"
    /\ listener = "closed"
    /\ servePc' = "returned"
    /\ serveRes' = IF ctxDone THEN "nil" ELSE "error"
    /\ UNCHANGED <<wVars, opts, decl, db, handles, muW, muR, listener, ctxDone, closePc, rlVars, connVars>>

\* ------------------------------------------------------------------ Reload
\* Handles the callers of Reload are about to open.
Opening == Cardinality({r \in Reloaders : rpc[r] = "open"})

\* A caller enters Reload(path).
ReloadCall(r, path) ==
    /\ rpc[r] = "idle"
    /\ Len(handles) + Opening < MaxHandles
    /\ rpc' = [rpc EXCEPT ![r] = "open"]
    /\ rpath' = [rpath EXCEPT ![r] = path]
    /\ UNCHANGED <<wVars, srvVars, rnew, rold, lastOk, connVars>>

\* openSQLite(dbPath) succeeds: newDB is a fresh open handle.
ReloadOpenOk(r) ==
    /\ rpc[r] = "open"
    /\ TRUE \in OpenOutcomes(rpath[r])
    /\ handles' = Append(handles, [path |-> rpath[r], closes |-> 0, writes |-> 0])
    /\ rnew' = [rnew EXCEPT ![r] = Len(handles) + 1]
    /\ rpc' = [rpc EXCEPT ![r] = "lock"]
    /\ UNCHANGED <<wVars, opts, decl, db, muW, muR, listener, ctxDone, servePc, serveRes, closePc,
                   rpath, rold, lastOk, connVars>>

\* A Reload that fails and, by a slip, closes the published handle too.
ReloadOpenFailClosesOld(r) ==
    /\ rpc[r] = "open"
    /\ FALSE \in OpenOutcomes(rpath[r])
    /\ handles' = CloseHandle(Append(handles, [path |-> rpath[r], closes |-> 1, writes |-> 0]), db)
    /\ rpc' = [rpc EXCEPT ![r] = "idle"]
    /\ rpath' = [rpath EXCEPT ![r] = ""]
    /\ UNCHANGED <<wVars, opts, decl, db, muW, muR, listener, ctxDone, servePc, serveRes, closePc,
                   rnew, rold, lastOk, connVars>>

\* openSQLite(dbPath) fails: the ping failed, openSQLite closed the handle it
\* had opened, and Reload returns the error.
ReloadOpenFail(r) ==
    /\ rpc[r] = "open"
    /\ FALSE \in OpenOutcomes(rpath[r])
    /\ handles' = Append(handles, [path |-> rpath[r], closes |-> 1, writes |-> 0])
    /\ rpc' = [rpc EXCEPT ![r] = "idle"]
    /\ rpath' = [rpath EXCEPT ![r] = ""]
    /\ UNCHANGED <<wVars, opts, decl, db, muW, muR, listener, ctxDone, servePc, serveRes, closePc,
                   rnew, rold, lastOk, connVars>>

\* s.mu.Lock()
ReloadLock(r) ==
    /\ rpc[r] = "lock"
    /\ muW = "none"
    /\ muR = {}
    /\ muW' = r
    /\ rpc' = [rpc EXCEPT ![r] = "locked"]
    /\ UNCHANGED <<wVars, opts, decl, db, handles, muR, listener, ctxDone, servePc, serveRes, closePc,
                   rpath, rnew, rold, lastOk, connVars>>

\* A swap that installs nothing: s.db is left as it was.
PublishedAfterSwapStale(r) == db

\* s.db = newDB
PublishedAfterSwap(r) == rnew[r]

\* A swap whose unlock is deferred to the return of Reload.
ReloadSwapDeferredUnlock(r) ==
    /\ rpc[r] = "locked"
    /\ rold' = [rold EXCEPT ![r] = db]
    /\ db' = PublishedAfterSwap(r)
    /\ rpc' = [rpc EXCEPT ![r] = "close"]
    /\ lastOk' = [h |-> rnew[r], path |-> rpath[r], by |-> r, returned |-> FALSE]
    /\ UNCHANGED <<wVars, opts, decl, handles, muW, muR, listener, ctxDone, servePc, serveRes, closePc,
                   rpath, rnew, connVars>>

\* old := s.db; s.db = newDB; s.mu.Unlock()
ReloadSwap(r) ==
    /\ rpc[r] = "locked"
    /\ rold' = [rold EXCEPT ![r] = db]
    /\ db' = PublishedAfterSwap(r)
    /\ muW' = "none"
    /\ rpc' = [rpc EXCEPT ![r] = "close"]
    /\ lastOk' = [h |-> rnew[r], path |-> rpath[r], by |-> r, returned |-> FALSE]
    /\ UNCHANGED <<wVars, opts, decl, handles, muR, listener, ctxDone, servePc, serveRes, closePc,
                   rpath, rnew, connVars>>

\* A Reload that closes s.db, the handle it has just published.
ReloadCloseTargetPublished(r) == db

\* The handle Reload closes: old.
ReloadCloseTarget(r) == rold[r]

\* if old != nil { old.Close() }; return nil
ReloadClose(r) ==
    /\ rpc[r] = "close"
    /\ handles' = IF rold[r] # NoHandle
                  THEN CloseHandle(handles, ReloadCloseTarget(r))
                  ELSE handles
    /\ rpc' = [rpc EXCEPT ![r] = "idle"]
    /\ rpath' = [rpath EXCEPT ![r] = ""]
    /\ rnew' = [rnew EXCEPT ![r] = NoHandle]
    /\ rold' = [rold EXCEPT ![r] = NoHandle]
    /\ lastOk' = IF lastOk.by = r THEN [lastOk EXCEPT !.returned = TRUE] ELSE lastOk
    /\ UNCHANGED <<wVars, opts, decl, db, muW, muR, listener, ctxDone, servePc, serveRes, closePc,
                   connVars>>

\* ------------------------------------------------------------------ Close
\* if s.listener != nil { s.listener.Close() }. s.listener is written by Serve
\* and read here without synchronisation: Close may still read nil.
CloseListener ==
    /\ closePc = "idle"
    /\ \E seen \in {listener, "nil"} :
          listener' = IF seen = "open" THEN "closed" ELSE listener
    /\ closePc' = "lock"
    /\ UNCHANGED <<wVars, opts, decl, db, handles, muW, muR, ctxDone, servePc, serveRes, rlVars, connVars>>

\* s.mu.Lock()
CloseLock ==
    /\ closePc = "lock"
    /\ muW = "none"
    /\ muR = {}
    /\ muW' = "close"
    /\ closePc' = "locked"
    /\ UNCHANGED <<wVars, opts, decl, db, handles, muR, listener, ctxDone, servePc, serveRes, rlVars, connVars>>

\* if s.db != nil { return s.db.Close() }, and the deferred s.mu.Unlock()
CloseDb ==
    /\ closePc = "locked"
    /\ handles' = IF db # NoHandle THEN CloseHandle(handles, db) ELSE handles
    /\ muW' = "none"
    /\ closePc' = "done"
    /\ UNCHANGED <<wVars, opts, decl, db, muR, listener, ctxDone, servePc, serveRes, rlVars, connVars>>

\* ------------------------------------------------------------------ handleConn
\* How many of the messages ms backend.Send writes to c: all of them, or none
\* when the client is gone.
Writes(c, ms) == IF broken[c] THEN {0} ELSE {Len(ms)}

\* The handler writes ms in order with backend.Send and goes to okPc when every
\* write succeeded, to failPc when one failed (the later ones fail too).
Respond(c, ms, okPc, failPc) ==
    \E n \in Writes(c, ms) :
        /\ out' = [out EXCEPT ![c] = @ \o SubSeq(ms, 1, n)]
        /\ broken' = [broken EXCEPT ![c] = @ \/ n < Len(ms)]
        /\ pc' = [pc EXCEPT ![c] = IF n = Len(ms) THEN okPc ELSE failPc]

\* The client goes away.
ClientDisconnect(c) ==
    /\ pc[c] \notin {"unaccepted", "closed"}
    /\ ~broken[c]
    /\ broken' = [broken EXCEPT ![c] = TRUE]
    /\ UNCHANGED <<wVars, srvVars, rlVars, pc, out, cuser, cresp, prepared, query, ext, connDb,
                   rowIdx, used, budget, recv>>

\* ReceiveStartupMessage or Receive returns an error: handleConn returns and
\* the deferred conn.Close() runs.
ConnRecvFail(c) ==
    /\ pc[c] \in {"startup", "startup2", "authwait", "loop"}
    /\ broken[c]
    /\ pc' = [pc EXCEPT ![c] = "closed"]
    /\ UNCHANGED <<wVars, srvVars, rlVars, out, cuser, cresp, broken, prepared, query, ext, connDb,
                   rowIdx, used, budget, recv>>

\* An Authenticator that asks for a password whenever one is configured.
AuthRequiredByPassword == opts.password # ""

\* handleAuth: if username == "" no credentials are asked for.
AuthRequired == opts.username # ""

\* An Authenticator that accepts whatever the client answers.
PasswordAcceptedAlways(c, m) == TRUE

\* An Authenticator that checks the client's user name as well.
PasswordAcceptedForUser(c, m) ==
    /\ m.type = "PasswordMessage"
    /\ m.password = opts.password
    /\ cuser[c] = opts.username

\* handleAuth: the answer is a PasswordMessage carrying the configured password.
PasswordAccepted(c, m) ==
    /\ m.type = "PasswordMessage"
    /\ m.password = opts.password

\* sendAuthError
AuthError == ErrorResponse("FATAL", "28P01")

\* A startup that declines every encrypted-connection request and reads on.
ConnStartupDeclinesAgain(c, pkt) ==
    /\ pc[c] \in {"startup", "startup2"}
    /\ ~broken[c]
    /\ IF pkt.type = "StartupMessage"
       THEN /\ cuser' = [cuser EXCEPT ![c] = pkt.user]
            /\ IF AuthRequired
               THEN Respond(c, <<AuthenticationCleartextPassword>>, "authwait", "closed")
               ELSE Respond(c, <<AuthenticationOk>> \o PostAuth, "loop", "closed")
       ELSE /\ cuser' = cuser
            /\ IF pkt.type = "SSLRequest"
               THEN Respond(c, <<SSLReject>>, "startup2", "startup2")
               ELSE Respond(c, <<>>, "closed", "closed")
    /\ recv' = [recv EXCEPT ![c] = Append(@, pkt)]
    /\ UNCHANGED <<wVars, srvVars, rlVars, cresp, prepared, query, ext, connDb, rowIdx, used, budget>>

\* The first packets of a connection, up to the first message handleAuth
\* waits for: a StartupMessage starts the authentication, a first SSLRequest
\* is declined with 'N', anything else ends the connection.
ConnStartup(c, pkt) ==
    /\ pc[c] \in {"startup", "startup2"}
    /\ ~broken[c]
    /\ IF pkt.type = "StartupMessage"
       THEN /\ cuser' = [cuser EXCEPT ![c] = pkt.user]
            /\ IF AuthRequired
               THEN Respond(c, <<AuthenticationCleartextPassword>>, "authwait", "closed")
               ELSE Respond(c, <<AuthenticationOk>> \o PostAuth, "loop", "closed")
       ELSE /\ cuser' = cuser
            /\ IF pkt.type = "SSLRequest" /\ pc[c] = "startup"
               THEN Respond(c, <<SSLReject>>, "startup2", "startup2")
               ELSE Respond(c, <<>>, "closed", "closed")
    /\ recv' = [recv EXCEPT ![c] = Append(@, pkt)]
    /\ UNCHANGED <<wVars, srvVars, rlVars, cresp, prepared, query, ext, connDb, rowIdx, used, budget>>

\* A handleAuth that runs a Query sent in place of the password.
ConnPasswordRunsQuery(c, m) ==
    /\ pc[c] = "authwait"
    /\ ~broken[c]
    /\ cresp' = [cresp EXCEPT ![c] = m]
    /\ IF m.type = "Query"
       THEN Respond(c, <<>>, "rlock", "closed")
       ELSE IF PasswordAccepted(c, m)
            THEN Respond(c, <<AuthenticationOk>> \o PostAuth, "loop", "closed")
            ELSE Respond(c, <<AuthError>>, "closed", "closed")
    /\ recv' = [recv EXCEPT ![c] = Append(@, m)]
    /\ UNCHANGED <<wVars, srvVars, rlVars, cuser, prepared, query, ext, connDb, rowIdx, used, budget>>

\* handleAuth after the challenge: the client's answer m is checked, and the
\* announcements follow AuthenticationOk.
ConnPassword(c, m) ==
    /\ pc[c] = "authwait"
    /\ ~broken[c]
    /\ cresp' = [cresp EXCEPT ![c] = m]
    /\ IF PasswordAccepted(c, m)
       THEN Respond(c, <<AuthenticationOk>> \o PostAuth, "loop", "closed")
       ELSE Respond(c, <<AuthError>>, "closed", "closed")
    /\ recv' = [recv EXCEPT ![c] = Append(@, m)]
    /\ UNCHANGED <<wVars, srvVars, rlVars, cuser, prepared, query, ext, connDb, rowIdx, used, budget>>

\* A query loop that answers a message it has no case for with the error alone.
LoopReplyErrorOnly(c, m) ==
    CASE m.type = "Query" -> <<EmptyQueryResponse, ReadyForQuery>>
      [] m.type = "Parse" -> <<ParseComplete>>
      [] m.type = "Bind" -> <<BindComplete>>
      [] m.type = "Describe" ->
            IF m.obj = "S" THEN <<ParameterDescription, NoData>> ELSE <<ParameterDescription>>
      [] m.type = "Execute" -> <<EmptyQueryResponse>>
      [] m.type = "Sync" -> <<ReadyForQuery>>
      [] m.type \in {"Terminate", "Malformed"} -> <<>>
      [] OTHER -> <<ErrorResponse("ERROR", "0A000")>>

\* A query loop that, after an ErrorResponse, discards messages until Sync.
LoopReplySkipsAfterError(c, m) ==
    IF out[c] # <<>> /\ out[c][Len(out[c])].type = "ErrorResponse"
    THEN IF m.type = "Sync" THEN <<ReadyForQuery>> ELSE <<>>
    ELSE CASE m.type = "Query" -> <<EmptyQueryResponse, ReadyForQuery>>
           [] m.type = "Parse" -> <<ParseComplete>>
           [] m.type = "Bind" -> <<BindComplete>>
           [] m.type = "Describe" ->
                 IF m.obj = "S" THEN <<ParameterDescription, NoData>>
                 ELSE <<ParameterDescription>>
           [] m.type = "Execute" -> <<EmptyQueryResponse>>
           [] m.type = "Sync" -> <<ReadyForQuery>>
           [] m.type \in {"Terminate", "Malformed"} -> <<>>
           [] OTHER -> <<ErrorResponse("ERROR", "0A000"), ReadyForQuery>>

\* A query loop that ends an Execute of the empty statement with ReadyForQuery.
LoopReplyExecuteReady(c, m) ==
    CASE m.type = "Query" -> <<EmptyQueryResponse, ReadyForQuery>>
      [] m.type = "Parse" -> <<ParseComplete>>
      [] m.type = "Bind" -> <<BindComplete>>
      [] m.type = "Describe" ->
            IF m.obj = "S" THEN <<ParameterDescription, NoData>> ELSE <<ParameterDescription>>
      [] m.type = "Execute" -> <<EmptyQueryResponse, ReadyForQuery>>
      [] m.type = "Sync" -> <<ReadyForQuery>>
      [] m.type \in {"Terminate", "Malformed"} -> <<>>
      [] OTHER -> <<ErrorResponse("ERROR", "0A000"), ReadyForQuery>>

\* What the query loop answers at once to a message that runs no statement.
LoopReply(c, m) ==
    CASE m.type = "Query" -> <<EmptyQueryResponse, ReadyForQuery>>
      [] m.type = "Parse" -> <<ParseComplete>>
      [] m.type = "Bind" -> <<BindComplete>>
      [] m.type = "Describe" ->
            IF m.obj = "S" THEN <<ParameterDescription, NoData>> ELSE <<ParameterDescription>>
      [] m.type = "Execute" -> <<EmptyQueryResponse>>
      [] m.type = "Sync" -> <<ReadyForQuery>>
      [] m.type \in {"Terminate", "Malformed"} -> <<>>
      [] OTHER -> <<ErrorResponse("ERROR", "0A000"), ReadyForQuery>>

\* The text a message asks to run: Query runs its own trimmed text, Execute
\* the pending statement; every other message runs nothing.
Statement(c, m) ==
    CASE m.type = "Query" -> TrimSpace(m.text)
      [] m.type = "Execute" -> prepared[c]
      [] OTHER -> <<>>

\* A pending statement kept in the Server, one for all connections.
PendingShared(c, m) ==
    IF m.type = "Parse" THEN [d \in Conns |-> TrimSpace(m.text)] ELSE prepared

\* A slot that Execute empties.
PendingConsumed(c, m) ==
    CASE m.type = "Parse" -> [prepared EXCEPT ![c] = TrimSpace(m.text)]
      [] m.type = "Execute" -> [prepared EXCEPT ![c] = <<>>]
      [] OTHER -> prepared

\* A slot that keeps the first statement parsed.
PendingKeepsFirst(c, m) ==
    IF m.type = "Parse" /\ prepared[c] = <<>>
    THEN [prepared EXCEPT ![c] = TrimSpace(m.text)]
    ELSE prepared

\* state.preparedQuery of every connection once c has handled m: Parse
\* stores its trimmed text in the slot of c.
Pending(c, m) ==
    IF m.type = "Parse" THEN [prepared EXCEPT ![c] = TrimSpace(m.text)] ELSE prepared

\* One turn of the query loop: backend.Receive returns m, and the switch
\* handles it up to the next Receive or up to s.mu.RLock().
ConnMessage(c, m) ==
    /\ pc[c] = "loop"
    /\ ~broken[c]
    /\ budget[c] > 0
    /\ budget' = [budget EXCEPT ![c] = @ - 1]
    /\ recv' = [recv EXCEPT ![c] = Append(@, m)]
    /\ prepared' = Pending(c, m)
    /\ IF m.type \in {"Query", "Execute"} /\ ~IsEmptyQuery(Statement(c, m))
       THEN /\ query' = [query EXCEPT ![c] = Statement(c, m)]
            /\ ext' = [ext EXCEPT ![c] = (m.type = "Execute")]
            /\ rowIdx' = [rowIdx EXCEPT ![c] = 0]
            /\ used' = [used EXCEPT ![c] = {}]
            /\ pc' = [pc EXCEPT ![c] = "rlock"]
            /\ UNCHANGED <<out, broken>>
       ELSE /\ IF m.type \in {"Terminate", "Malformed"}
               THEN Respond(c, <<>>, "closed", "closed")
               ELSE Respond(c, LoopReply(c, m), "loop", "loop")
            /\ UNCHANGED <<query, ext, rowIdx, used>>
    /\ UNCHANGED <<wVars, srvVars, rlVars, cuser, cresp, connDb>>

\* s.mu.RLock()
ConnRLock(c) ==
    /\ pc[c] = "rlock"
    /\ muW = "none"
    /\ muR' = muR \cup {c}
    /\ pc' = [pc EXCEPT ![c] = "rlocked"]
    /\ UNCHANGED <<wVars, opts, decl, db, handles, muW, listener, ctxDone, servePc, serveRes, closePc,
                   rlVars, out, cuser, cresp, broken, prepared, query, ext, connDb, rowIdx,
                   used, budget, recv>>

\* db := s.db
CapturedHandle(c) == db

\* A capture that never releases the read lock.
ConnCaptureKeepsLock(c) ==
    /\ pc[c] = "rlocked"
    /\ connDb' = [connDb EXCEPT ![c] = CapturedHandle(c)]
    /\ pc' = [pc EXCEPT ![c] = "exec"]
    /\ UNCHANGED <<wVars, srvVars, rlVars, out, cuser, cresp, broken, prepared, query, ext,
                   rowIdx, used, budget, recv>>

\* db := s.db; s.mu.RUnlock()
ConnCapture(c) ==
    /\ pc[c] = "rlocked"
    /\ connDb' = [connDb EXCEPT ![c] = CapturedHandle(c)]
    /\ muR' = muR \ {c}
    /\ pc' = [pc EXCEPT ![c] = "exec"]
    /\ UNCHANGED <<wVars, opts, decl, db, handles, muW, listener, ctxDone, servePc, serveRes, closePc,
                   rlVars, out, cuser, cresp, broken, prepared, query, ext, rowIdx, used, budget, recv>>

\* A query loop that sends ReadyForQuery after every statement.
ReadyAfterEveryStatement(c) == <<ReadyForQuery>>

\* The ReadyForQuery that handleConn sends after executeQuery for a Query.
Ready(c) == IF ext[c] THEN <<>> ELSE <<ReadyForQuery>>

\* sendQueryError
QueryError == ErrorResponse("ERROR", "42601")

\* A handleConn that returns when executeQuery has returned.
FinishAndReturn(c, ms) ==
    /\ Respond(c, ms \o Ready(c), "closed", "closed")
    /\ query' = [query EXCEPT ![c] = <<>>]
    /\ ext' = [ext EXCEPT ![c] = FALSE]
    /\ connDb' = [connDb EXCEPT ![c] = NoHandle]
    /\ rowIdx' = [rowIdx EXCEPT ![c] = 0]
    /\ used' = [used EXCEPT ![c] = {}]

\* executeQuery returns after writing ms, handleConn sends the ReadyForQuery
\* of a Query and reads the next message; the locals of the statement are gone.
Finish(c, ms) ==
    /\ Respond(c, ms \o Ready(c), "loop", "loop")
    /\ query' = [query EXCEPT ![c] = <<>>]
    /\ ext' = [ext EXCEPT ![c] = FALSE]
    /\ connDb' = [connDb EXCEPT ![c] = NoHandle]
    /\ rowIdx' = [rowIdx EXCEPT ![c] = 0]
    /\ used' = [used EXCEPT ![c] = {}]

\* The handle executeQuery runs on: its db argument.
ExecHandle(c) == connDb[c]

\* executeQuery up to the RowDescription: db.Query(query), rows.ColumnTypes().
ConnExec(c) ==
    /\ pc[c] = "exec"
    /\ IF QueryOk(ExecHandle(c), TrimSpace(query[c]))
       THEN IF broken[c]
            THEN Finish(c, <<>>)
            ELSE /\ out' = [out EXCEPT ![c] =
                               Append(@, IF IsWrite(TrimSpace(query[c]))
                                         THEN NoColumns(handles[ExecHandle(c)].path)
                                         ELSE RowDescription(handles[ExecHandle(c)].path))]
                 /\ used' = [used EXCEPT ![c] = @ \cup {ExecHandle(c)}]
                 /\ pc' = [pc EXCEPT ![c] = "rows"]
                 /\ UNCHANGED <<broken, query, ext, connDb, rowIdx>>
       ELSE Finish(c, <<QueryError>>)
    /\ handles' = IF QueryOk(ExecHandle(c), TrimSpace(query[c])) /\ IsWrite(TrimSpace(query[c]))
                  THEN [handles EXCEPT ![ExecHandle(c)].writes = @ + 1]
                  ELSE handles
    /\ UNCHANGED <<wVars, opts, decl, db, muW, muR, listener, ctxDone, servePc, serveRes, closePc,
                   rlVars, cuser, cresp, prepared, budget, recv>>

\* Rows that are read from the published handle, row by row.
RowSourcePublished(c) == db

\* The handle the rows of the running statement come from: the one db.Query
\* ran on.
RowSource(c) == connDb[c]

\* The rows of the running statement: those the SELECT finds through the
\* handle, none for a statement that writes.
ResultRows(c) == IF IsWrite(TrimSpace(query[c])) THEN 0 ELSE HandleRows(RowSource(c))

\* An executeQuery that hands over to the query loop after each DataRow.
ConnRowThenReads(c) ==
    /\ pc[c] = "rows"
    /\ rowIdx[c] < ResultRows(c)
    /\ IF broken[c]
       THEN Finish(c, <<>>)
       ELSE /\ out' = [out EXCEPT ![c] =
                          Append(@, DataRow(handles[RowSource(c)].path, rowIdx[c] + 1))]
            /\ used' = [used EXCEPT ![c] = @ \cup {RowSource(c)}]
            /\ rowIdx' = [rowIdx EXCEPT ![c] = @ + 1]
            /\ pc' = [pc EXCEPT ![c] = "loop"]
            /\ UNCHANGED <<broken, query, ext, connDb>>
    /\ UNCHANGED <<wVars, srvVars, rlVars, cuser, cresp, prepared, budget, recv>>

\* executeQuery: rows.Next() has a row, which is sent as a DataRow.
ConnRow(c) ==
    /\ pc[c] = "rows"
    /\ rowIdx[c] < ResultRows(c)
    /\ IF broken[c]
       THEN Finish(c, <<>>)
       ELSE /\ out' = [out EXCEPT ![c] =
                          Append(@, DataRow(handles[RowSource(c)].path, rowIdx[c] + 1))]
            /\ used' = [used EXCEPT ![c] = @ \cup {RowSource(c)}]
            /\ rowIdx' = [rowIdx EXCEPT ![c] = @ + 1]
            /\ UNCHANGED <<pc, broken, query, ext, connDb>>
    /\ UNCHANGED <<wVars, srvVars, rlVars, cuser, cresp, prepared, budget, recv>>

\* An executeQuery that completes the result after reporting the error.
ConnRowFailThenCompletes(c) ==
    /\ pc[c] = "rows"
    /\ Finish(c, <<QueryError, CommandComplete(rowIdx[c])>>)
    /\ UNCHANGED <<wVars, srvVars, rlVars, cuser, cresp, prepared, budget, recv>>

\* executeQuery: rows.Scan or rows.Err() reports an engine error in the
\* middle of the stream.
ConnRowFail(c) ==
    /\ pc[c] = "rows"
    /\ Finish(c, <<QueryError>>)
    /\ UNCHANGED <<wVars, srvVars, rlVars, cuser, cresp, prepared, budget, recv>>

\* executeQuery: rows.Next() is false: CommandComplete with the row count.
ConnComplete(c) ==
    /\ pc[c] = "rows"
    /\ rowIdx[c] = ResultRows(c)
    /\ Finish(c, <<CommandComplete(rowIdx[c])>>)
    /\ UNCHANGED <<wVars, srvVars, rlVars, cuser, cresp, prepared, budget, recv>>

\* ------------------------------------------------------------------ clients
StartupMessage(u) == [type |-> "StartupMessage", user |-> u]
SSLRequest == [type |-> "SSLRequest"]
CancelRequest == [type |-> "CancelRequest"]
PasswordMessage(p) == [type |-> "PasswordMessage", password |-> p]
Query(t) == [type |-> "Query", text |-> t]
Parse(t) == [type |-> "Parse", text |-> t]
Bind == [type |-> "Bind"]
\* A Bind that asks for the result columns in binary format.
BindBinary == [type |-> "Bind", formats |-> <<1>>]
Describe(o) == [type |-> "Describe", obj |-> o]
Execute == [type |-> "Execute"]
Sync == [type |-> "Sync"]
Terminate == [type |-> "Terminate"]
\* A message kind the query loop has no case for.
Flush == [type |-> "Flush"]
\* Bytes that backend.Receive cannot decode.
Malformed == [type |-> "Malformed"]

\* The SELECT the engine accepts.
Select == <<"q">>

\* The options New is given, and what clients send during the handshake.
AuthOpts == [username : {"", "u"}, password : {"", "p"}]
StartupPackets == {StartupMessage("u"), StartupMessage("v"), SSLRequest, CancelRequest}
ChallengeAnswers == {PasswordMessage(""), PasswordMessage("p"), PasswordMessage("w"),
                     Query(Select)}

\* The texts clients send.
Texts == {<<>>, <<" ">>, <<";">>, <<" ", ";", "\n">>, Select, <<" ", "q", "\n">>, <<"x">>}

\* The messages clients send in the query loop.
Messages ==
    {Query(t) : t \in Texts} \cup {Parse(t) : t \in Texts}
        \cup {Bind, BindBinary, Describe("S"), Describe("P"), Execute, Sync, Terminate, Flush,
              Malformed}

\* ------------------------------------------------------------------ watcher
\* The serve command starts one Watcher on the context it hands to Serve; its
\* callback rebuilds the data set and calls Reload. The goroutine of
\* Watcher.Start is the Reload caller "r1".
WatcherCaller == "r1"

\* serveOutputFile, the path the serve command builds, serves and reloads.
serveOutputFile == "a.db"

\* The Reload calls that the changes delivered so far may still lead to: one
\* for each event waiting, one for the pending change, one for the callback
\* that has not reached Reload yet.
ReloadsAhead ==
    wQueue + (IF wPending THEN 1 ELSE 0)
           + (IF wpc \in {"build", "rename", "reload"} THEN 1 ELSE 0)

\* fsnotify delivers a change event on fw.Events: at most MaxEvents of them,
\* and no more than there are handles left for the Reload calls to open.
FsEvent ==
    /\ wpc # "returned"
    /\ wDelivered < MaxEvents
    /\ Len(handles) + Opening + ReloadsAhead < MaxHandles
    /\ wQueue' = wQueue + 1
    /\ wDelivered' = wDelivered + 1
    /\ wDirty' = TRUE
    /\ UNCHANGED <<srvVars, rlVars, connVars, wpc, wPending, wTimerOn, wTimerC, wSince, wCalls, wStaged>>

\* The debounce interval has passed since timer.Reset: the runtime sends on
\* timer.C.
TimerFire ==
    /\ wTimerOn
    /\ wTimerOn' = FALSE
    /\ wTimerC' = TRUE
    /\ UNCHANGED <<srvVars, rlVars, connVars, wpc, wPending, wQueue, wDelivered, wDirty, wSince,
                   wCalls, wStaged>>

\* case <-ctx.Done(): return nil
WatchCancelled ==
    /\ wpc = "select"
    /\ ctxDone
    /\ wpc' = "returned"
    /\ UNCHANGED <<srvVars, rlVars, connVars, wPending, wTimerOn, wTimerC, wQueue, wDelivered,
                   wDirty, wSince, wCalls, wStaged>>

\* An event case that resets the timer without stopping and draining it.
WatchEventKeepsTimer ==
    /\ wpc = "select"
    /\ wQueue > 0
    /\ wQueue' = wQueue - 1
    /\ wTimerOn' = TRUE
    /\ wPending' = TRUE
    /\ wSince' = wSince + 1
    /\ UNCHANGED <<srvVars, rlVars, connVars, wpc, wTimerC, wDelivered, wDirty, wCalls, wStaged>>

\* case event := <-w.fw.Events: if pending, timer.Stop() and a value that
\* timer.C holds is drained; timer.Reset(w.debounce); pending = true.
WatchEvent ==
    /\ wpc = "select"
    /\ wQueue > 0
    /\ wQueue' = wQueue - 1
    /\ wTimerC' = IF wPending THEN FALSE ELSE wTimerC
    /\ wTimerOn' = TRUE
    /\ wPending' = TRUE
    /\ wSince' = wSince + 1
    /\ UNCHANGED <<srvVars, rlVars, connVars, wpc, wDelivered, wDirty, wCalls, wStaged>>

\* case <-timer.C: pending = false; w.fn(ctx) is called.
WatchTimer ==
    /\ wpc = "select"
    /\ wTimerC
    /\ wTimerC' = FALSE
    /\ wPending' = FALSE
    /\ wpc' = "build"
    /\ wDirty' = FALSE
    /\ wSince' = 0
    /\ wCalls' = wCalls + 1
    /\ wStaged' = "none"
    /\ UNCHANGED <<srvVars, rlVars, connVars, wTimerOn, wQueue, wDelivered>>

\* builder.Build succeeds on the temporary file.
WatchBuildOk ==
    /\ wpc = "build"
    /\ wpc' = "rename"
    /\ wStaged' = "built"
    /\ UNCHANGED <<srvVars, rlVars, connVars, wPending, wTimerOn, wTimerC, wQueue, wDelivered,
                   wDirty, wSince, wCalls>>

\* A Watcher.Start that returns when the callback returns an error.
WatchBuildFailStops ==
    /\ wpc = "build"
    /\ wpc' = "returned"
    /\ UNCHANGED <<srvVars, rlVars, connVars, wPending, wTimerOn, wTimerC, wQueue, wDelivered,
                   wDirty, wSince, wCalls, wStaged>>

\* builder.Build fails: the callback returns the error, Start logs it and
\* selects again.
WatchBuildFail ==
    /\ wpc = "build"
    /\ wpc' = "select"
    /\ UNCHANGED <<srvVars, rlVars, connVars, wPending, wTimerOn, wTimerC, wQueue, wDelivered,
                   wDirty, wSince, wCalls, wStaged>>

\* os.Rename(tmpFile, serveOutputFile) succeeds.
WatchRenameOk ==
    /\ wpc = "rename"
    /\ wpc' = "reload"
    /\ wStaged' = "renamed"
    /\ UNCHANGED <<srvVars, rlVars, connVars, wPending, wTimerOn, wTimerC, wQueue, wDelivered,
                   wDirty, wSince, wCalls>>

\* A callback that reloads although the rename failed.
WatchRenameFailReloads ==
    /\ wpc = "rename"
    /\ wpc' = "reload"
    /\ UNCHANGED <<srvVars, rlVars, connVars, wPending, wTimerOn, wTimerC, wQueue, wDelivered,
                   wDirty, wSince, wCalls, wStaged>>

\* os.Rename fails: the callback returns the error.
WatchRenameFail ==
    /\ wpc = "rename"
    /\ wpc' = "select"
    /\ UNCHANGED <<srvVars, rlVars, connVars, wPending, wTimerOn, wTimerC, wQueue, wDelivered,
                   wDirty, wSince, wCalls, wStaged>>

\* srv.Reload(serveOutputFile) is called.
WatchReloadCall ==
    /\ wpc = "reload"
    /\ rpc[WatcherCaller] = "idle"
    /\ Len(handles) + Opening < MaxHandles
    /\ rpc' = [rpc EXCEPT ![WatcherCaller] = "open"]
    /\ rpath' = [rpath EXCEPT ![WatcherCaller] = serveOutputFile]
    /\ wpc' = "reloading"
    /\ UNCHANGED <<srvVars, rnew, rold, lastOk, connVars, wPending, wTimerOn, wTimerC, wQueue,
                   wDelivered, wDirty, wSince, wCalls, wStaged>>

\* srv.Reload has returned, nil or the error: the callback returns and Start
\* selects again.
WatchReloadReturn ==
    /\ wpc = "reloading"
    /\ rpc[WatcherCaller] = "idle"
    /\ wpc' = "select"
    /\ UNCHANGED <<srvVars, rlVars, connVars, wPending, wTimerOn, wTimerC, wQueue, wDelivered,
                   wDirty, wSince, wCalls, wStaged>>

\* ------------------------------------------------------------------ Init
\* The state New(opts) leaves, for the options in optsSet and the backing
\* files in dbPaths, whose column is declared with a type name in decls, with
\* clients that send at most msgs messages each.
InitWith(optsSet, dbPaths, msgs, decls) ==
    /\ opts \in optsSet
    /\ \E p \in dbPaths :
          /\ handles = <<[path |-> p, closes |-> 0, writes |-> 0]>>
          /\ lastOk = [h |-> 1, path |-> p, by |-> "New", returned |-> TRUE]
    /\ db = 1
    /\ muW = "none"
    /\ muR = {}
    /\ listener = "nil"
    /\ ctxDone = FALSE
    /\ servePc = "init"
    /\ serveRes = "none"
    /\ closePc = "idle"
    /\ rpc = [r \in Reloaders |-> "idle"]
    /\ rpath = [r \in Reloaders |-> ""]
    /\ rnew = [r \in Reloaders |-> NoHandle]
    /\ rold = [r \in Reloaders |-> NoHandle]
    /\ pc = [c \in Conns |-> "unaccepted"]
    /\ out = [c \in Conns |-> <<>>]
    /\ cuser = [c \in Conns |-> ""]
    /\ cresp = [c \in Conns |-> [type |-> "none"]]
    /\ broken = [c \in Conns |-> FALSE]
    /\ prepared = [c \in Conns |-> <<>>]
    /\ query = [c \in Conns |-> <<>>]
    /\ ext = [c \in Conns |-> FALSE]
    /\ connDb = [c \in Conns |-> NoHandle]
    /\ rowIdx = [c \in Conns |-> 0]
    /\ used = [c \in Conns |-> {}]
    /\ budget = [c \in Conns |-> msgs]
    /\ recv = [c \in Conns |-> <<>>]
    /\ decl \in decls
    /\ wpc = "select"
    /\ wPending = FALSE
    /\ wTimerOn = FALSE
    /\ wTimerC = FALSE
    /\ wQueue = 0
    /\ wDelivered = 0
    /\ wDirty = FALSE
    /\ wSince = 0
    /\ wCalls = 0
    /\ wStaged = "none"

NoAuth == [username |-> "", password |-> ""]

\* ------------------------------------------------------------------ the server
\* The whole server with every client and caller. The specifications below
\* are this one with fewer initial states and fewer choices for its
\* environment, so each of their behaviours is a behaviour of Spec.
Init == InitWith(AuthOpts, Paths, MaxMsgs, DeclTypes)

Next ==
    \/ ServeListen
    \/ ServeListenFail
    \/ CtxCancel
    \/ ServeCtxClose
    \/ ServeAcceptErr
    \/ \E c \in Conns : ServeAccept(c)
    \/ \E r \in Reloaders, p \in Paths : ReloadCall(r, p)
    \/ \E r \in Reloaders : ReloadOpenOk(r)
    \/ \E r \in Reloaders : ReloadOpenFail(r)
    \/ \E r \in Reloaders : ReloadLock(r)
    \/ \E r \in Reloaders : ReloadSwap(r)
    \/ \E r \in Reloaders : ReloadClose(r)
    \/ CloseListener
    \/ CloseLock
    \/ CloseDb
    \/ \E c \in Conns : ClientDisconnect(c)
    \/ \E c \in Conns : ConnRecvFail(c)
    \/ \E c \in Conns, pkt \in StartupPackets : ConnStartup(c, pkt)
    \/ \E c \in Conns, m \in ChallengeAnswers : ConnPassword(c, m)
    \/ \E c \in Conns, m \in Messages : ConnMessage(c, m)
    \/ \E c \in Conns : ConnRLock(c)
    \/ \E c \in Conns : ConnCapture(c)
    \/ \E c \in Conns : ConnExec(c)
    \/ \E c \in Conns : ConnRow(c)
    \/ \E c \in Conns : ConnRowFail(c)
    \/ \E c \in Conns : ConnComplete(c)
    \/ FsEvent
    \/ TimerFire
    \/ WatchCancelled
    \/ WatchEvent
    \/ WatchTimer
    \/ WatchBuildOk
    \/ WatchBuildFail
    \/ WatchRenameOk
    \/ WatchRenameFail
    \/ WatchReloadCall
    \/ WatchReloadReturn

Spec == Init /\ [][Next]_vars

\* ------------------------------------------------------------------ reload
\* The server under Reload and Close: clients that need no password run
\* SELECTs while two callers reload the store and one closes the server.
InitReload == InitWith({NoAuth}, {"a.db"}, MaxMsgs, {Integer})

NextReload ==
    \/ ServeListen
    \/ \E c \in Conns : ServeAccept(c)
    \/ \E r \in Reloaders, p \in {"a.db", "b.db"} : ReloadCall(r, p)
    \/ \E r \in Reloaders : ReloadOpenOk(r)
    \/ \E r \in Reloaders : ReloadOpenFail(r)
    \/ \E r \in Reloaders : ReloadLock(r)
    \/ \E r \in Reloaders : ReloadSwap(r)
    \/ \E r \in Reloaders : ReloadClose(r)
    \/ CloseListener
    \/ CloseLock
    \/ CloseDb
    \/ \E c \in Conns : ConnStartup(c, StartupMessage("u"))
    \/ \E c \in Conns : ConnMessage(c, Query(Select))
    \/ \E c \in Conns : ConnRLock(c)
    \/ \E c \in Conns : ConnCapture(c)
    \/ \E c \in Conns : ConnExec(c)
    \/ \E c \in Conns : ConnRow(c)
    \/ \E c \in Conns : ConnComplete(c)

ReloadSpec == InitReload /\ [][NextReload]_vars

\* One step of Reload other than taking the lock.
ReloadStep(r) ==
    ReloadOpenOk(r) \/ ReloadOpenFail(r) \/ ReloadSwap(r) \/ ReloadClose(r)

\* The server under Reload("b.db"), with the scheduling the Go runtime gives: a
\* goroutine that can run does run, and sync.RWMutex starves neither Lock nor
\* RLock. A statement that is executing (db.Query, rows.Next) and a client are
\* promised no progress: a query may take for ever.
NextFair ==
    \/ ServeListen
    \/ \E c \in Conns : ServeAccept(c)
    \/ \E r \in Reloaders : ReloadCall(r, "b.db")
    \/ \E r \in Reloaders : ReloadOpenOk(r)
    \/ \E r \in Reloaders : ReloadOpenFail(r)
    \/ \E r \in Reloaders : ReloadLock(r)
    \/ \E r \in Reloaders : ReloadSwap(r)
    \/ \E r \in Reloaders : ReloadClose(r)
    \/ \E c \in Conns : ConnStartup(c, StartupMessage("u"))
    \/ \E c \in Conns : ConnMessage(c, Query(Select))
    \/ \E c \in Conns : ConnRLock(c)
    \/ \E c \in Conns : ConnCapture(c)
    \/ \E c \in Conns : ConnExec(c)
    \/ \E c \in Conns : ConnRow(c)
    \/ \E c \in Conns : ConnComplete(c)

FairReloadSpec ==
    /\ InitReload
    /\ [][NextFair]_vars
    /\ \A r \in Reloaders : WF_vars(ReloadStep(r)) /\ SF_vars(ReloadLock(r))
    /\ \A c \in Conns : SF_vars(ConnRLock(c)) /\ WF_vars(ConnCapture(c))

Running(c) == pc[c] \in {"exec", "rows"}

\* C1: once a Reload(path) has returned nil and no later swap has happened,
\* every capture of the handle reference, on any connection, yields the handle
\* that Reload opened from path.
C1_ReloadVisible ==
    [][\A c \in Conns :
          (pc[c] = "rlocked" /\ pc'[c] = "exec" /\ lastOk.returned /\ lastOk.by \in Reloaders)
              => (connDb'[c] = lastOk.h /\ handles[connDb'[c]].path = lastOk.path)]_vars

\* A statement runs on the handle of a Reload("b.db") that has returned, on a
\* connection that needed no reconnection.
C1_Witness ==
    \E c \in Conns :
        /\ pc[c] = "rows"
        /\ lastOk.returned /\ lastOk.by \in Reloaders /\ lastOk.path = "b.db"
        /\ connDb[c] = lastOk.h
        /\ out[c][Len(out[c])] = RowDescription("b.db")

\* C2: a running statement reads from one handle only, the one it captured,
\* whatever Reload does meanwhile.
C2_OneHandlePerQuery ==
    \A c \in Conns :
        Running(c) => (connDb[c] \in 1..Len(handles) /\ used[c] \subseteq {connDb[c]})

\* A statement is in the middle of its rows on a handle that a Reload has
\* replaced since.
C2_Witness ==
    \E c \in Conns :
        pc[c] = "rows" /\ rowIdx[c] >= 1 /\ connDb[c] # db /\ used[c] = {connDb[c]}

\* C3: the step in which Reload returns the error of openSQLite changes neither
\* the published reference nor any handle that existed before the call.
C3_ReloadAllOrNothing ==
    [][\A r \in Reloaders :
          (rpc[r] = "open" /\ rpc'[r] = "idle")
              => /\ db' = db
                 /\ \A h \in 1..Len(handles) : handles'[h] = handles[h]
                 /\ lastOk' = lastOk]_vars

\* After a failed Reload the handle New opened is still published and open, and
\* a statement runs on it.
C3_Witness ==
    /\ Len(handles) = 2 /\ handles[2].closes = 1
    /\ db = 1 /\ IsOpen(1)
    /\ \A r \in Reloaders : rpc[r] = "idle"
    /\ \E c \in Conns : pc[c] = "rows" /\ connDb[c] = 1 /\ rowIdx[c] = 1

\* C4: until Close closes it, the published handle exists and is open; the
\* write lock excludes readers; a Reload about to close a handle closes one
\* that is no longer published, and no other Reload closes the same one.
C4_PublishedOpen ==
    /\ db \in 1..Len(handles)
    /\ closePc # "done" => IsOpen(db)
    /\ muW # "none" => muR = {}
    /\ \A r \in Reloaders : rpc[r] = "close" => rold[r] # db
    /\ \A r1, r2 \in Reloaders :
          (r1 # r2 /\ rpc[r1] = "close" /\ rpc[r2] = "close") => rold[r1] # rold[r2]

\* Two Reload calls have both swapped and neither has closed its old handle yet,
\* while a connection holds a captured handle.
C4_Witness ==
    /\ \A r \in Reloaders : rpc[r] = "close"
    /\ \E c \in Conns : Running(c)
    /\ closePc = "idle"

\* C5: a Reload that is about to close the superseded handle holds no lock and
\* can close at once, whoever still runs a statement on that handle.
C5_CloseOutsideLock ==
    \A r \in Reloaders : rpc[r] = "close" => (muW # r /\ ENABLED ReloadClose(r))

\* A statement that captured the old handle before the swap is executing, or
\* about to execute, on it after Reload has closed it.
C5_Witness ==
    \E c \in Conns :
        /\ Running(c)
        /\ connDb[c] # db
        /\ ~IsOpen(connDb[c])
        /\ closePc = "idle"

\* C6: no statement executes with the read lock held; every Reload that has
\* been called returns, and every connection that asks for the handle gets it,
\* though running statements are promised no progress.
C6_LockNotHeldDuringQuery ==
    /\ [](\A c \in Conns : Running(c) => c \notin muR)
    /\ \A r \in Reloaders : (rpc[r] # "idle") ~> (rpc[r] = "idle")
    /\ \A c \in Conns : (pc[c] = "rlock") ~> (pc[c] = "exec")

\* A Reload has swapped, closed the old handle and returned while a statement
\* that captured the old handle is still in its rows.
C6_Witness ==
    /\ lastOk.returned /\ lastOk.by \in Reloaders
    /\ \A r \in Reloaders : rpc[r] = "idle"
    /\ \E c \in Conns : pc[c] = "rows" /\ connDb[c] # db /\ rowIdx[c] = 0

\* ------------------------------------------------------------------ auth
\* The handshake: servers with and without a configured user name and password
\* (runServe hands over whatever the two environment variables hold), clients
\* that open with any startup packet, answer the challenge with any password
\* or with another message, may go away, and run a SELECT once they are in.
InitAuth == InitWith(AuthOpts, {Memory}, MaxMsgs, {Integer})

NextAuth ==
    \/ ServeListen
    \/ \E c \in Conns : ServeAccept(c)
    \/ \E c \in Conns, pkt \in StartupPackets : ConnStartup(c, pkt)
    \/ \E c \in Conns, m \in ChallengeAnswers : ConnPassword(c, m)
    \/ \E c \in Conns : ClientDisconnect(c)
    \/ \E c \in Conns : ConnRecvFail(c)
    \/ \E c \in Conns : ConnMessage(c, Query(Select))
    \/ \E c \in Conns : ConnRLock(c)
    \/ \E c \in Conns : ConnCapture(c)
    \/ \E c \in Conns : ConnExec(c)
    \/ \E c \in Conns : ConnRow(c)
    \/ \E c \in Conns : ConnComplete(c)

AuthSpec == InitAuth /\ [][NextAuth]_vars

\* What the server wrote to c from the authentication on: out[c] without the
\* 'N' that declined an SSLRequest.
AuthOut(c) ==
    IF out[c] # <<>> /\ out[c][1] = SSLReject THEN Tail(out[c]) ELSE out[c]

\* The server has received a plain StartupMessage from c.
Started(c) == cuser[c] # ""

\* The server has received the answer of c to the password challenge.
Answered(c) == cresp[c].type # "none"

\* c answered the challenge with the configured password.
RightPassword(c) ==
    cresp[c].type = "PasswordMessage" /\ cresp[c].password = opts.password

\* c was challenged, got AuthenticationOk and the announcements, and its
\* connection is open unless the client went away.
Admitted(c) ==
    /\ Len(AuthOut(c)) >= 2 + Len(PostAuth)
    /\ SubSeq(AuthOut(c), 1, 2 + Len(PostAuth))
          = <<AuthenticationCleartextPassword, AuthenticationOk>> \o PostAuth
    /\ pc[c] # "closed" \/ broken[c]

\* c was challenged and got the fatal error and nothing else, and its
\* connection is closed.
Rejected(c) ==
    /\ AuthOut(c) = <<AuthenticationCleartextPassword, ErrorResponse("FATAL", "28P01")>>
    /\ pc[c] = "closed"

\* C7: with a user name configured, a client that answers the challenge with
\* the configured password is admitted; one that answers with another password
\* or another message gets the FATAL 28P01 error and a closed connection, with
\* no AuthenticationOk, no ReadyForQuery and no result.
C7_PasswordDecides ==
    \A c \in Conns :
        (opts.username # "" /\ Answered(c))
            => IF RightPassword(c) THEN Admitted(c) ELSE Rejected(c)

\* One client is in and has a row of its SELECT; another, which sent a wrong
\* password, is rejected; a third case, a Query instead of the password, is
\* covered by the other connection's choices.
C7_Witness ==
    \E c1, c2 \in Conns :
        /\ opts.username = "u" /\ opts.password = "p"
        /\ Admitted(c1) /\ HasType(c1, "DataRow")
        /\ Rejected(c2) /\ cresp[c2] = PasswordMessage("w")

\* C8: with no user name configured, the first thing a client that sent a
\* StartupMessage gets is AuthenticationOk: no challenge, no error, whatever
\* its user name and whatever password is configured.
C8_NoUsernameNoChallenge ==
    \A c \in Conns :
        (opts.username = "" /\ Started(c))
            => /\ AuthOut(c) # <<>>
               /\ AuthOut(c)[1] = AuthenticationOk
               /\ ~HasType(c, "AuthenticationCleartextPassword")
               /\ ~HasType(c, "ErrorResponse")
               /\ ~Answered(c)

\* A server with a password but no user name has let in two clients with
\* different user names, one of them after an SSLRequest.
C8_Witness ==
    /\ opts.username = "" /\ opts.password = "p"
    /\ \E c1, c2 \in Conns :
          /\ cuser[c1] = "u" /\ cuser[c2] = "v"
          /\ HasType(c1, "DataRow")
          /\ out[c2][1] = SSLReject /\ HasType(c2, "DataRow")

\* The server has sent AuthenticationOk to c.
Authenticated(c) == HasType(c, "AuthenticationOk")

\* C9: with a user name configured, two clients that give the same answer to
\* the challenge get the same outcome whatever user names they sent, and the
\* configured password admits every user name.
C9_UsernameIgnored ==
    opts.username # "" =>
        /\ \A c1, c2 \in Conns :
              (Answered(c1) /\ Answered(c2) /\ cresp[c1] = cresp[c2])
                  => /\ Authenticated(c1) <=> Authenticated(c2)
                     /\ Rejected(c1) <=> Rejected(c2)
        /\ \A c \in Conns : (Answered(c) /\ RightPassword(c)) => Authenticated(c)

\* Two clients, one with the configured user name and one with another, sent
\* the configured password and are both in.
C9_Witness ==
    \E c1, c2 \in Conns :
        /\ opts.username = "u" /\ opts.password = "p"
        /\ cuser[c1] = "u" /\ cuser[c2] = "v"
        /\ cresp[c1] = PasswordMessage("p") /\ cresp[c2] = PasswordMessage("p")
        /\ Authenticated(c1) /\ Authenticated(c2)

\* C10: credentials are required only when both the user name and the
\* password are set: with either one empty a client that sent a StartupMessage
\* is let in without a challenge.
C10_CredentialsOnlyWhenBothSet ==
    \A c \in Conns :
        ((opts.username = "" \/ opts.password = "") /\ Started(c))
            => /\ ~HasType(c, "AuthenticationCleartextPassword")
               /\ AuthOut(c) # <<>>
               /\ AuthOut(c)[1] = AuthenticationOk

\* C11: an SSLRequest as the first packet is answered with one 'N' and the
\* next packet is read; a second SSLRequest, or any packet that is not a
\* StartupMessage where one is due, closes the connection with nothing more
\* written: no second 'N', no authentication message, no ErrorResponse.
C11_StartupNegotiation ==
    \A c \in Conns :
        LET n == Len(recv[c])
            declined == n >= 1 /\ recv[c][1].type = "SSLRequest"
            due == IF declined THEN 2 ELSE 1
        IN  /\ declined => out[c] # <<>> /\ out[c][1] = [type |-> "N"]
            /\ \A i \in 2..Len(out[c]) : out[c][i].type # "N"
            /\ ~declined => ~HasType(c, "N")
            /\ (n = 1 /\ declined)
                  => /\ out[c] = <<[type |-> "N"]>>
                     /\ pc[c] = "startup2" \/ (pc[c] = "closed" /\ broken[c])
            /\ (n >= due /\ recv[c][due].type # "StartupMessage")
                  => /\ n = due
                     /\ pc[c] = "closed"
                     /\ out[c] = IF declined THEN <<[type |-> "N"]>> ELSE <<>>

\* One client was declined once and then let in with its StartupMessage;
\* the other sent a second SSLRequest and is closed with the one 'N'.
C11_Witness ==
    \E c1, c2 \in Conns :
        /\ recv[c1] = <<SSLRequest, StartupMessage("u")>>
        /\ Authenticated(c1)
        /\ recv[c2] = <<SSLRequest, SSLRequest>> /\ pc[c2] = "closed"

\* C12: AuthenticationOk is followed at once by the five ParameterStatus
\* announcements, BackendKeyData(1, 0) and ReadyForQuery('I'), in this order,
\* and the server reads the messages of the query loop only after they are out.
C12_PostAuthSequence ==
    \A c \in Conns :
      /\ pc[c] \in {"loop", "rlock", "rlocked", "exec", "rows"}
            => HasType(c, "AuthenticationOk")
      /\ \A i \in 1..Len(out[c]) :
        out[c][i].type = "AuthenticationOk" =>
            /\ Len(out[c]) >= i + 7
            /\ SubSeq(out[c], i + 1, i + 7) =
                  << [type |-> "ParameterStatus", name |-> "server_version", value |-> "14.0"],
                     [type |-> "ParameterStatus", name |-> "client_encoding", value |-> "UTF8"],
                     [type |-> "ParameterStatus", name |-> "server_encoding", value |-> "UTF8"],
                     [type |-> "ParameterStatus", name |-> "DateStyle", value |-> "ISO, MDY"],
                     [type |-> "ParameterStatus", name |-> "integer_datetimes", value |-> "on"],
                     [type |-> "BackendKeyData", pid |-> 1, secret |-> 0],
                     [type |-> "ReadyForQuery", status |-> "I"] >>
            /\ \A k \in 1..(i - 1) :
                  out[c][k].type \in {"N", "AuthenticationCleartextPassword"}

\* Both clients got the sequence after the password challenge, one of them
\* after its SSLRequest was declined, and both are at the query loop.
C12_Witness ==
    \E c1, c2 \in Conns :
        /\ c1 # c2
        /\ opts.username = "u"
        /\ pc[c1] = "loop" /\ Len(out[c1]) = 9 /\ out[c1][2] = AuthenticationOk
        /\ pc[c2] = "loop" /\ Len(out[c2]) = 10 /\ out[c2][1] = SSLReject
        /\ out[c2][3] = AuthenticationOk

\* ------------------------------------------------------------------ protocol
\* One session of the query loop: a client that needs no password sends any
\* of the messages, may go away at any time, and the engine may fail in the
\* middle of a result. The data set has no row, one row or two.
InitProto == InitWith({NoAuth}, {"a.db", "b.db", "e.db"}, MaxLoopMsgs, {Integer})

NextProto ==
    \/ ServeListen
    \/ ServeAccept("c1")
    \/ ConnStartup("c1", StartupMessage("u"))
    \/ ClientDisconnect("c1")
    \/ ConnRecvFail("c1")
    \/ \E m \in Messages : ConnMessage("c1", m)
    \/ ConnRLock("c1")
    \/ ConnCapture("c1")
    \/ ConnExec("c1")
    \/ ConnRow("c1")
    \/ ConnRowFail("c1")
    \/ ConnComplete("c1")

ProtoSpec == InitProto /\ [][NextProto]_vars

\* The query loop of c has just read a message: the step's new last element
\* of recv[c].
LoopRead(c) == pc[c] = "loop" /\ Len(recv'[c]) = Len(recv[c]) + 1

\* What a step has added to out[c].
Written(c) == SubSeq(out'[c], Len(out[c]) + 1, Len(out'[c]))

\* C13: a Query whose text is empty, only whitespace, or one semicolon with
\* nothing but whitespace around it, is answered with EmptyQueryResponse and
\* ReadyForQuery and nothing else, and no statement starts: no handle is
\* captured and none is read.
C13_EmptyQuery ==
    [][\A c \in Conns :
          LoopRead(c) =>
              LET m == recv'[c][Len(recv'[c])]
                  blank(t) ==
                      /\ \A i \in 1..Len(t) : t[i] \in {" ", "\t", "\n", ";"}
                      /\ Cardinality({i \in 1..Len(t) : t[i] = ";"}) <= 1
              IN  (m.type = "Query" /\ blank(m.text)) =>
                      /\ Written(c) = << [type |-> "EmptyQueryResponse"],
                                         [type |-> "ReadyForQuery", status |-> "I"] >>
                      /\ pc'[c] = "loop"
                      /\ connDb'[c] = NoHandle /\ used'[c] = {}
      ]_vars

\* The client sent a semicolon between whitespace and then only whitespace,
\* and has the two answers to each.
C13_Witness ==
    \E c \in Conns :
        /\ Len(recv[c]) = 3
        /\ recv[c][2] = Query(<<" ", ";", "\n">>) /\ recv[c][3] = Query(<<" ">>)
        /\ pc[c] = "loop"
        /\ SubSeq(out[c], Len(out[c]) - 3, Len(out[c]))
              = <<EmptyQueryResponse, ReadyForQuery, EmptyQueryResponse, ReadyForQuery>>

\* ------------------------------------------------------------------ extended protocol
\* A client that needs no password and speaks the extended protocol with
\* statements the engine accepts, in any order and up to MaxExtMsgs messages.
ExtMessages == {Parse(Select), Parse(<<" ", "q", "\n">>), Bind, Describe("S"), Execute, Sync}

InitExt == InitWith({NoAuth}, {"b.db", "e.db"}, MaxExtMsgs, {Integer})

NextExt ==
    \/ ServeListen
    \/ ServeAccept("c1")
    \/ ConnStartup("c1", StartupMessage("u"))
    \/ \E m \in ExtMessages : ConnMessage("c1", m)
    \/ ConnRLock("c1")
    \/ ConnCapture("c1")
    \/ ConnExec("c1")
    \/ ConnRow("c1")
    \/ ConnComplete("c1")

ExtSpec == InitExt /\ [][NextExt]_vars

\* The messages the query loop of c has read: recv[c] without the startup
\* packets and the answer to the password challenge.
LoopRecv(c) ==
    LET first == IF recv[c] # <<>> /\ recv[c][1].type = "SSLRequest" THEN 2 ELSE 1
        before == IF AuthRequired THEN first + 1 ELSE first
    IN  SubSeq(recv[c], before + 1, Len(recv[c]))

\* What the query loop of c has written: out[c] after the ReadyForQuery that
\* ends the announcements.
LoopOut(c) ==
    IF HasType(c, "ReadyForQuery")
    THEN SubSeq(out[c],
                1 + (CHOOSE i \in 1..Len(out[c]) :
                        /\ out[c][i].type = "ReadyForQuery"
                        /\ \A k \in 1..(i - 1) : out[c][k].type # "ReadyForQuery"),
                Len(out[c]))
    ELSE <<>>

\* C14: once Parse of a statement the engine accepts, Bind, Describe of the
\* statement, Execute and Sync have been handled, the query loop has written
\* ParseComplete, BindComplete, ParameterDescription, NoData, RowDescription,
\* the DataRows, CommandComplete, ReadyForQuery and nothing else; after the
\* Execute and before the Sync it has written all of them but the
\* ReadyForQuery, and while the Execute runs there is no ReadyForQuery either.
C14_ExtendedRoundTrip ==
    \A c \in Conns :
        LET lr == LoopRecv(c)
            lo == LoopOut(c)
            types == [i \in 1..Len(lo) |-> lo[i].type]
            valid(m) == m.type = "Parse" /\ m.text \in {<<"q">>, <<" ", "q", "\n">>}
            upTo(k) ==
                /\ Len(lr) = k
                /\ valid(lr[1])
                /\ SubSeq(lr, 2, k) = SubSeq(<< lr[1], [type |-> "Bind"],
                                                [type |-> "Describe", obj |-> "S"],
                                                [type |-> "Execute"],
                                                [type |-> "Sync"] >>, 2, k)
            result(n) ==
                << "ParseComplete", "BindComplete", "ParameterDescription", "NoData",
                   "RowDescription" >> \o [i \in 1..n |-> "DataRow"] \o <<"CommandComplete">>
        IN  /\ (Len(lr) >= 1 /\ upTo(5) /\ pc[c] = "loop")
                  => /\ Len(lo) >= 7
                     /\ types = result(Len(lo) - 7) \o <<"ReadyForQuery">>
                     /\ lo[Len(lo) - 1].tag = <<"SELECT", Len(lo) - 7>>
            /\ (Len(lr) >= 1 /\ upTo(4) /\ pc[c] = "loop")
                  => /\ Len(lo) >= 6
                     /\ types = result(Len(lo) - 6)
            /\ (Len(lr) >= 1 /\ upTo(4))
                  => \A i \in 1..Len(lo) : types[i] # "ReadyForQuery"

\* The five messages are handled, the statement came with whitespace around
\* it, and the result has two rows.
C14_Witness ==
    \E c \in Conns :
        /\ LoopRecv(c) = <<Parse(<<" ", "q", "\n">>), Bind, Describe("S"), Execute, Sync>>
        /\ pc[c] = "loop"
        /\ Len(LoopOut(c)) = 9
        /\ LoopOut(c)[7].type = "DataRow"

\* C15: a message of a kind other than Query, Parse, Bind, Describe, Execute,
\* Sync and Terminate that the query loop reads, whatever came before it, is
\* answered with one ErrorResponse 0A000 and one ReadyForQuery; the loop goes
\* on to the next message and the pending statement is kept.
C15_UnsupportedMessage ==
    [][\A c \in Conns :
          LoopRead(c) =>
              LET m == recv'[c][Len(recv'[c])]
              IN  m.type \notin {"Query", "Parse", "Bind", "Describe", "Execute", "Sync",
                                 "Terminate", "Malformed"} =>
                      /\ Written(c) =
                            << [type |-> "ErrorResponse", severity |-> "ERROR", code |-> "0A000"],
                               [type |-> "ReadyForQuery", status |-> "I"] >>
                      /\ pc'[c] = "loop"
                      /\ prepared'[c] = prepared[c]
      ]_vars

\* A Flush came between Parse and Execute; the Execute that followed it got
\* its rows and CommandComplete.
C15_Witness ==
    \E c \in Conns :
        /\ LoopRecv(c) = <<Parse(Select), Flush, Execute>>
        /\ pc[c] = "loop"
        /\ LET lo == LoopOut(c)
           IN  /\ Len(lo) >= 5
               /\ lo[2] = ErrorResponse("ERROR", "0A000") /\ lo[3] = ReadyForQuery
               /\ lo[4].type = "RowDescription"
               /\ lo[Len(lo)].type = "CommandComplete"

\* C16: every CommandComplete closes a result: before it stand a
\* RowDescription and then DataRows only, one for each row of the data set and
\* in the order of the rows; its tag is SELECT with the number of these
\* DataRows, and no DataRow and no second CommandComplete comes after it.
C16_CompletionCountsRows ==
    \A c \in Conns : \A i \in 1..Len(out[c]) :
        out[c][i].type = "CommandComplete" =>
            /\ \E j \in 1..(i - 1) :
                  /\ out[c][j].type = "RowDescription"
                  /\ \A k \in (j + 1)..(i - 1) :
                        out[c][k] = [type |-> "DataRow", of |-> out[c][j].of, row |-> k - j]
                  /\ i - j - 1 = NRows(out[c][j].of)
                  /\ out[c][i].tag = <<"SELECT", i - j - 1>>
            /\ i < Len(out[c]) => out[c][i + 1].type \notin {"DataRow", "CommandComplete"}

\* A Query on the data set of two rows is answered with the description, two
\* DataRows, SELECT 2 and ReadyForQuery.
C16_Witness ==
    \E c \in Conns :
        LET lo == LoopOut(c)
        IN  /\ handles[1].path = "b.db"
            /\ LoopRecv(c) = <<Query(Select)>>
            /\ Len(lo) = 5
            /\ lo[1].type = "RowDescription"
            /\ lo[2].type = "DataRow" /\ lo[3].type = "DataRow"
            /\ lo[4] = [type |-> "CommandComplete", tag |-> <<"SELECT", 2>>]
            /\ lo[5] = ReadyForQuery

\* C17: nothing that was written is taken back. On a connection that is up, a
\* statement that ends has written as its last message either one
\* ErrorResponse 42601 or one CommandComplete (and then, for a Query, the
\* ReadyForQuery), and the ErrorResponse when the engine refused it; until it
\* ends it writes no ErrorResponse and no CommandComplete. No DataRow and no
\* CommandComplete comes right after an ErrorResponse 42601.
C17_ErrorEndsStatement ==
    [][\A c \in Conns :
          LET w == Written(c)
              error == [type |-> "ErrorResponse", severity |-> "ERROR", code |-> "42601"]
              ends(ms) == Len(ms) = 1 /\ (ms[1] = error \/ ms[1].type = "CommandComplete")
              ready == IF ext[c] THEN <<>> ELSE <<[type |-> "ReadyForQuery", status |-> "I"]>>
          IN  /\ Len(out'[c]) >= Len(out[c])
              /\ SubSeq(out'[c], 1, Len(out[c])) = out[c]
              /\ (pc[c] \in {"exec", "rows"} /\ pc'[c] = "loop" /\ ~broken[c])
                    => /\ Len(w) = 1 + Len(ready)
                       /\ ends(SubSeq(w, 1, 1))
                       /\ SubSeq(w, 2, Len(w)) = ready
                       /\ (pc[c] = "exec" /\ ~QueryOk(connDb[c], query[c])) => w[1] = error
              /\ (pc[c] \in {"exec", "rows"} /\ pc'[c] \in {"exec", "rows"})
                    => \A i \in 1..Len(w) : w[i].type \in {"RowDescription", "DataRow"}
              /\ \A i \in 1..(Len(out'[c]) - 1) :
                    out'[c][i] = error => out'[c][i + 1].type \notin {"DataRow", "CommandComplete"}
      ]_vars

\* The engine failed after the first of two rows: the client has the
\* description, one DataRow, the ErrorResponse and ReadyForQuery.
C17_Witness ==
    \E c \in Conns :
        /\ LoopRecv(c) = <<Query(Select)>>
        /\ pc[c] = "loop"
        /\ handles[1].path = "b.db"
        /\ LoopOut(c) = << RowDescription("b.db"), DataRow("b.db", 1), QueryError,
                            ReadyForQuery >>

\* C18: the query loop ends, and the connection is closed, in the step that
\* reads a Terminate or bytes that are no message, or when the read fails
\* because the client is gone, and in no other step: a statement that runs,
\* whatever its outcome, and every other message leave the loop going. Once
\* the client is gone the loop reads nothing more.
C18_LoopExit ==
    [][\A c \in Conns :
          LET inLoop(p) == p \in {"loop", "rlock", "rlocked", "exec", "rows"}
              last == recv'[c][Len(recv'[c])]
              fatal == LoopRead(c) /\ last.type \in {"Terminate", "Malformed"}
              failed == pc[c] = "loop" /\ broken[c] /\ recv'[c] = recv[c]
          IN  /\ (inLoop(pc[c]) /\ pc'[c] = "closed") => (fatal \/ failed)
              /\ fatal => pc'[c] = "closed"
              /\ inLoop(pc[c]) => (inLoop(pc'[c]) \/ pc'[c] = "closed")
              /\ fatal => Written(c) = <<>>
              /\ (inLoop(pc[c]) /\ broken[c]) => recv'[c] = recv[c]
      ]_vars

\* The engine refused a statement, a Flush was refused, and the Terminate
\* that followed closed the connection of a client that is still there.
C18_Witness ==
    \E c \in Conns :
        /\ LoopRecv(c) = <<Query(<<"x">>), Flush, Terminate>>
        /\ pc[c] = "closed" /\ ~broken[c]
        /\ LoopOut(c) = << QueryError, ReadyForQuery,
                            ErrorResponse("ERROR", "0A000"), ReadyForQuery >>

\* C19: the server reads a message from a connection only when no statement
\* of the connection is running, and what it writes without reading belongs
\* to the Query or Execute it read last, so the answers stand in the order of
\* the messages and each is complete before the next message is read. A
\* ReadyForQuery is never written for Parse, Bind, Describe or Execute: it
\* comes with the Sync, which writes it and nothing else.
C19_OneMessageAtATime ==
    [][\A c \in Conns :
          LET w == Written(c)
              reading == recv'[c] # recv[c]
              last(r) == r[Len(r)]
          IN  /\ reading =>
                    /\ Len(recv'[c]) = Len(recv[c]) + 1
                    /\ SubSeq(recv'[c], 1, Len(recv[c])) = recv[c]
                    /\ pc[c] \in {"startup", "startup2", "authwait", "loop"}
                    /\ query[c] = <<>> /\ connDb[c] = NoHandle
              /\ (~reading /\ w # <<>>) =>
                    /\ pc[c] \in {"exec", "rows"}
                    /\ last(recv[c]).type \in {"Query", "Execute"}
              /\ (\E i \in 1..Len(w) : w[i].type = "ReadyForQuery") =>
                    last(recv'[c]).type \notin {"Parse", "Bind", "Describe", "Execute"}
              /\ (LoopRead(c) /\ last(recv'[c]).type = "Sync") =>
                    w = <<[type |-> "ReadyForQuery", status |-> "I"]>>
      ]_vars

\* Two Queries were answered one after the other: the result of the first
\* with its ReadyForQuery, then the error of the second with its own.
C19_Witness ==
    \E c \in Conns :
        /\ LoopRecv(c) = <<Query(Select), Query(<<"x">>)>>
        /\ handles[1].path = "a.db"
        /\ LoopOut(c) = << RowDescription("a.db"), DataRow("a.db", 1), CommandComplete(1),
                            ReadyForQuery, QueryError, ReadyForQuery >>

\* ------------------------------------------------------------------ column types
\* Clients that need no password run a SELECT on data sets whose column is
\* declared with any of the type names.
InitTypes == InitWith({NoAuth}, {"a.db"}, MaxMsgs, DeclTypes)

NextTypes ==
    \/ ServeListen
    \/ \E c \in Conns : ServeAccept(c)
    \/ \E c \in Conns : ConnStartup(c, StartupMessage("u"))
    \/ \E c \in Conns : ConnMessage(c, Query(Select))
    \/ \E c \in Conns : ConnRLock(c)
    \/ \E c \in Conns : ConnCapture(c)
    \/ \E c \in Conns : ConnExec(c)
    \/ \E c \in Conns : ConnRow(c)
    \/ \E c \in Conns : ConnComplete(c)

TypeSpec == InitTypes /\ [][NextTypes]_vars

\* C20: the OID announced for a column depends on its declared type name
\* without regard to case: 20 for the integer names, 701 for the floating,
\* decimal and numeric names, 16 for the boolean names, 17 for BLOB, and 25
\* for every other name, TEXT, CHAR and the absent name among them.
C20_TypeMapping ==
    \A c \in Conns : \A i \in 1..Len(out[c]) :
        out[c][i].type = "RowDescription" =>
            LET lower == [k \in 1..Len(decl) |->
                            CASE decl[k] = "A" -> "a" [] decl[k] = "B" -> "b"
                              [] decl[k] = "C" -> "c" [] decl[k] = "D" -> "d"
                              [] decl[k] = "E" -> "e" [] decl[k] = "F" -> "f"
                              [] decl[k] = "G" -> "g" [] decl[k] = "H" -> "h"
                              [] decl[k] = "I" -> "i" [] decl[k] = "L" -> "l"
                              [] decl[k] = "M" -> "m" [] decl[k] = "N" -> "n"
                              [] decl[k] = "O" -> "o" [] decl[k] = "R" -> "r"
                              [] decl[k] = "S" -> "s" [] decl[k] = "T" -> "t"
                              [] decl[k] = "U" -> "u" [] decl[k] = "V" -> "v"
                              [] decl[k] = "X" -> "x" [] decl[k] = "Y" -> "y"
                              [] OTHER -> decl[k]]
                integers == { <<"i", "n", "t", "e", "g", "e", "r">>, <<"i", "n", "t">>,
                              <<"i", "n", "t", "2">>, <<"i", "n", "t", "4">>,
                              <<"i", "n", "t", "8">>, <<"b", "i", "g", "i", "n", "t">>,
                              <<"s", "m", "a", "l", "l", "i", "n", "t">> }
                floats == { <<"r", "e", "a", "l">>, <<"f", "l", "o", "a", "t">>,
                            <<"f", "l", "o", "a", "t", "4">>, <<"f", "l", "o", "a", "t", "8">>,
                            <<"d", "o", "u", "b", "l", "e">>,
                            <<"n", "u", "m", "e", "r", "i", "c">>,
                            <<"d", "e", "c", "i", "m", "a", "l">> }
                booleans == { <<"b", "o", "o", "l">>, <<"b", "o", "o", "l", "e", "a", "n">> }
                blobs == { <<"b", "l", "o", "b">> }
            IN  out[c][i].fields[1].oid =
                                CASE lower \in integers -> 20
                                  [] lower \in floats -> 701
                                  [] lower \in booleans -> 16
                                  [] lower \in blobs -> 17
                                  [] OTHER -> 25

\* A column declared bigInt was announced as 20.
C20_Witness ==
    /\ decl = <<"b", "i", "g", "I", "n", "t">>
    /\ \E c \in Conns : \E i \in 1..Len(out[c]) :
          out[c][i].type = "RowDescription" /\ out[c][i].fields[1].oid = 20

\* ------------------------------------------------------------------ result columns
\* C21: every column of every RowDescription written carries table OID 0,
\* attribute number 0, type size -1, type modifier -1 and format code 0,
\* whatever result formats a Bind has asked for; and handling a Bind writes
\* BindComplete and changes neither the pending statement nor any statement
\* that runs.
C21_ColumnsFixedWhateverBind ==
    [][\A c \in Conns :
          /\ \A i \in 1..Len(out'[c]) :
                out'[c][i].type = "RowDescription" =>
                    \A k \in 1..Len(out'[c][i].fields) :
                        LET f == out'[c][i].fields[k]
                        IN  /\ f.tableOID = 0 /\ f.attr = 0
                            /\ f.size = -1 /\ f.modifier = -1
                            /\ f.format = 0
          /\ (LoopRead(c) /\ recv'[c][Len(recv'[c])].type = "Bind") =>
                /\ prepared'[c] = prepared[c]
                /\ query'[c] = query[c]
                /\ pc'[c] = "loop"
                /\ Written(c) = << [type |-> "BindComplete"] >>
      ]_vars

\* After Parse, a Bind that asks for binary results, and Execute, the column
\* was announced in text format.
C21_Witness ==
    \E c \in Conns :
        /\ LoopRecv(c) = <<Parse(Select), BindBinary, Execute>>
        /\ \E i \in 1..Len(out[c]) :
              /\ out[c][i].type = "RowDescription"
              /\ Len(out[c][i].fields) = 1
              /\ out[c][i].fields[1].format = 0

\* ------------------------------------------------------------------ store contents
\* One session against a server opened on a file or, as the tests open it,
\* on an in-memory database, with a client that sends the SELECT and a
\* statement that writes, through Query and through Parse and Execute, while
\* the data set may be reloaded.
WriteText == <<"w">>

StoreMessages == {Query(Select), Query(WriteText), Parse(WriteText), Execute}

InitStore == InitWith({NoAuth}, {Memory, "a.db"}, MaxLoopMsgs, {Integer})

NextStore ==
    \/ ServeListen
    \/ ServeAccept("c1")
    \/ \E p \in {Memory, "a.db"} : ReloadCall("r1", p)
    \/ ReloadOpenOk("r1")
    \/ ReloadOpenFail("r1")
    \/ ReloadLock("r1")
    \/ ReloadSwap("r1")
    \/ ReloadClose("r1")
    \/ ConnStartup("c1", StartupMessage("u"))
    \/ \E m \in StoreMessages : ConnMessage("c1", m)
    \/ ConnRLock("c1")
    \/ ConnCapture("c1")
    \/ ConnExec("c1")
    \/ ConnRow("c1")
    \/ ConnComplete("c1")

StoreSpec == InitStore /\ [][NextStore]_vars

\* C22: the data set served is read-only: whatever text clients send by
\* Query or by Parse and Execute, no step changes the rows that a later
\* SELECT finds through a handle the server has opened; what clients see
\* changes only when Reload publishes another handle.
C22_StoreReadOnly ==
    [][\A h \in 1..Len(handles) :
          NRows(handles'[h].path) + handles'[h].writes
              = NRows(handles[h].path) + handles[h].writes
      ]_vars

\* ------------------------------------------------------------------ shutdown
\* The server while it is shut down: the caller of Serve may cancel the
\* context, some goroutine may call Close, in either order or alone, and net.Listen
\* may fail; the clients send a SELECT or Terminate, or go away.
InitShutdown == InitWith({NoAuth}, {"a.db"}, MaxMsgs, {Integer})

NextShutdown ==
    \/ ServeListen
    \/ ServeListenFail
    \/ CtxCancel
    \/ ServeCtxClose
    \/ \E c \in Conns : ServeAccept(c)
    \/ ServeAcceptErr
    \/ CloseListener
    \/ CloseLock
    \/ CloseDb
    \/ \E c \in Conns : ConnStartup(c, StartupMessage("u"))
    \/ \E c \in Conns : ClientDisconnect(c)
    \/ \E c \in Conns : ConnRecvFail(c)
    \/ \E c \in Conns, m \in {Query(Select), Terminate} : ConnMessage(c, m)
    \/ \E c \in Conns : ConnRLock(c)
    \/ \E c \in Conns : ConnCapture(c)
    \/ \E c \in Conns : ConnExec(c)
    \/ \E c \in Conns : ConnRow(c)
    \/ \E c \in Conns : ConnRowFail(c)
    \/ \E c \in Conns : ConnComplete(c)

ShutdownSpec == InitShutdown /\ [][NextShutdown]_vars

\* C23 as stated: whenever Serve has returned because its listener was
\* closed, it has returned no error.
C23_ListenerClosedIsNormal ==
    (servePc = "returned" /\ listener = "closed") => serveRes = "nil"

\* C23: the accept loop ends only on a closed listener, and Serve then
\* returns no error exactly when the context is cancelled by the time Accept
\* fails; a listener closed by Close alone makes Serve return the error.
C23_NormalOnlyWhenCancelled ==
    [][(servePc = "accept" /\ servePc' = "returned") =>
          /\ listener = "closed"
          /\ (serveRes' = "nil") <=> ctxDone
      ]_vars

\* The context was cancelled, the listener closed for it and not by Close,
\* and Serve has returned no error.
C23_Witness ==
    /\ servePc = "returned" /\ serveRes = "nil"
    /\ ctxDone /\ listener = "closed" /\ closePc = "idle"

\* The steps that answer a statement of c once it is read.
QueryStep(c) ==
    ConnRLock(c) \/ ConnCapture(c) \/ ConnExec(c) \/ ConnRow(c) \/ ConnRowFail(c)
        \/ ConnComplete(c)

\* The shutdown with the scheduling the Go runtime gives and an engine that
\* returns from every call: a goroutine that can run does run, Close
\* releases the lock it holds, and a statement under way comes to its end.
FairShutdownSpec ==
    /\ InitShutdown
    /\ [][NextShutdown]_vars
    /\ WF_vars(CloseDb)
    /\ \A c \in Conns : WF_vars(QueryStep(c))

\* C24: cancelling the context, and the closing of the listener that
\* follows, change nothing of an accepted connection; no connection is
\* accepted once the listener is closed; a connection is closed only when its
\* client is gone or its transport failed or it has read Terminate; and a
\* statement under way when or after the context is cancelled is answered
\* and the connection reads on.
C24_CancelOnlyStopsAccepting ==
    /\ [][\A c \in Conns :
             /\ (ctxDone' # ctxDone \/ listener' # listener \/ servePc' # servePc) =>
                   /\ pc'[c] = pc[c] /\ out'[c] = out[c] /\ broken'[c] = broken[c]
                   /\ recv'[c] = recv[c] /\ query'[c] = query[c] /\ connDb'[c] = connDb[c]
             /\ (pc[c] = "unaccepted" /\ listener # "open") => pc'[c] = "unaccepted"
             /\ (pc[c] \notin {"unaccepted", "closed"} /\ pc'[c] = "closed") =>
                   \/ broken[c]
                   \/ LoopRead(c) /\ recv'[c][Len(recv'[c])].type = "Terminate"
         ]_vars
    /\ \A c \in Conns :
          (ctxDone /\ pc[c] \in {"rlock", "rlocked", "exec", "rows"}) ~> (pc[c] = "loop")

\* Serve has returned after the cancellation and a connection accepted
\* before is in the middle of a result.
C24_Witness ==
    /\ servePc = "returned" /\ serveRes = "nil" /\ ctxDone
    /\ \E c \in Conns : pc[c] = "rows" /\ ~broken[c]

\* ------------------------------------------------------------------ Close
\* C25: Close closes the listener when one is open, and closes the handle
\* that is published, both while it holds the lock for writing: a listener
\* that is open when Close begins is closed by it, the listener is closed
\* by Close only under the lock, the handle Close closes is the published
\* one and is closed under the lock, and no Reload swaps the reference
\* while Close holds the lock.
C25_CloseUnderExclusiveAccess ==
    [][/\ (closePc = "idle" /\ closePc' # "idle" /\ listener = "open") =>
              listener' = "closed"
       /\ (closePc' # closePc /\ listener' # listener) => muW = "close"
       /\ (closePc = "locked" /\ closePc' = "done") =>
              /\ muW = "close"
              /\ handles' = IF db # NoHandle THEN CloseHandle(handles, db) ELSE handles
       /\ db' # db => muW # "close"
      ]_vars

\* ------------------------------------------------------------------ two connections
\* Two clients that need no password and each send up to MaxPairMsgs of
\* Parse of the SELECT, Parse of a text the engine refuses, and Execute, in
\* any interleaving.
MaxPairMsgs == 3

PairMessages == {Parse(Select), Parse(<<"x">>), Execute}

InitPair == InitWith({NoAuth}, {"a.db"}, MaxPairMsgs, {Integer})

NextPair ==
    \/ ServeListen
    \/ \E c \in Conns : ServeAccept(c)
    \/ \E c \in Conns : ConnStartup(c, StartupMessage("u"))
    \/ \E c \in Conns, m \in PairMessages : ConnMessage(c, m)
    \/ \E c \in Conns : ConnRLock(c)
    \/ \E c \in Conns : ConnCapture(c)
    \/ \E c \in Conns : ConnExec(c)
    \/ \E c \in Conns : ConnRow(c)
    \/ \E c \in Conns : ConnComplete(c)

PairSpec == InitPair /\ [][NextPair]_vars

\* What handleConn keeps for connection c and what it has read and written.
Local(c) ==
    <<pc[c], out[c], cuser[c], cresp[c], broken[c], prepared[c], query[c], ext[c], connDb[c],
      rowIdx[c], used[c], budget[c], recv[c]>>

\* C26: the pending statement belongs to one connection: a step that changes
\* anything of one connection changes nothing of another, and the statement
\* an Execute starts is the trimmed text of the last Parse read on its own
\* connection, whatever the other connection has parsed in between.
C26_PendingPerConnection ==
    [][\A c \in Conns :
          /\ \A d \in Conns \ {c} : Local(c)' # Local(c) => Local(d)' = Local(d)
          /\ (LoopRead(c) /\ recv'[c][Len(recv'[c])].type = "Execute" /\ pc'[c] = "rlock") =>
                LET parses == {i \in 1..Len(recv[c]) : recv[c][i].type = "Parse"}
                    last == CHOOSE i \in parses : \A k \in parses : k <= i
                IN  /\ parses # {}
                    /\ query'[c] = TrimSpace(recv[c][last].text)
      ]_vars

\* One connection has parsed the SELECT and runs it by Execute while the
\* other has parsed another text.
C26_Witness ==
    \E c \in Conns, d \in Conns :
        /\ c # d
        /\ LoopRecv(c) = <<Parse(Select), Execute>> /\ pc[c] = "exec" /\ query[c] = Select
        /\ LoopRecv(d) = <<Parse(<<"x">>)>> /\ prepared[d] = <<"x">>

\* ------------------------------------------------------------------ pending statement
\* C27: when the query loop reads Execute, the text it goes by is that of
\* the last Parse read on the connection, without the whitespace around it,
\* or the empty text when there was no Parse. If that text is empty or one
\* semicolon, it writes EmptyQueryResponse and nothing else and starts no
\* statement: it takes no lock and captures and reads no handle. Otherwise it
\* starts that text as the statement, writing nothing yet.
C27_ExecuteRunsLastParse ==
    [][\A c \in Conns :
          (LoopRead(c) /\ recv'[c][Len(recv'[c])].type = "Execute") =>
              LET parses == {i \in 1..Len(recv[c]) : recv[c][i].type = "Parse"}
                  last == CHOOSE i \in parses : \A k \in parses : k <= i
                  t == IF parses = {} THEN <<>> ELSE recv[c][last].text
                  inked == {i \in 1..Len(t) : t[i] \notin {" ", "\t", "\n", "\r"}}
                  lo == CHOOSE i \in inked : \A k \in inked : i <= k
                  hi == CHOOSE i \in inked : \A k \in inked : k <= i
                  text == IF inked = {} THEN <<>> ELSE SubSeq(t, lo, hi)
              IN  IF text = <<>> \/ text = <<";">>
                  THEN /\ Written(c) = << [type |-> "EmptyQueryResponse"] >>
                       /\ pc'[c] = "loop"
                       /\ connDb'[c] = NoHandle /\ used'[c] = {}
                       /\ muR' = muR /\ handles' = handles
                  ELSE /\ Written(c) = <<>>
                       /\ pc'[c] = "rlock"
                       /\ query'[c] = text
      ]_vars

\* After Parse of a text the engine refuses and Parse of the SELECT between
\* whitespace, Execute runs the SELECT.
C27_Witness ==
    \E c \in Conns :
        /\ LoopRecv(c) = <<Parse(<<"x">>), Parse(<<" ", "q", "\n">>), Execute>>
        /\ pc[c] = "exec" /\ query[c] = <<"q">>

\* ------------------------------------------------------------------ nothing before authentication
\* C28: on every connection, whatever packets the client sends, a
\* RowDescription, DataRow, CommandComplete or ReadyForQuery is written only
\* after an AuthenticationOk, and no statement is started, no handle captured
\* and none read before AuthenticationOk is written.
C28_NothingBeforeAuthenticationOk ==
    \A c \in Conns :
        /\ \A i \in 1..Len(out[c]) :
              out[c][i].type \in {"RowDescription", "DataRow", "CommandComplete",
                                  "ReadyForQuery"}
                  => \E k \in 1..(i - 1) : out[c][k].type = "AuthenticationOk"
        /\ (\/ pc[c] \in {"rlock", "rlocked", "exec", "rows"}
            \/ connDb[c] # NoHandle
            \/ used[c] # {}
            \/ query[c] # <<>>)
              => \E k \in 1..Len(out[c]) : out[c][k].type = "AuthenticationOk"

\* A client whose SSL request was declined sent a Query in place of the
\* password: it got the challenge and the error, and the connection is closed.
C28_Witness ==
    \E c \in Conns :
        /\ recv[c] = <<SSLRequest, StartupMessage("u"), Query(Select)>>
        /\ pc[c] = "closed"
        /\ ~broken[c]
        /\ out[c][Len(out[c])].type = "ErrorResponse"
        /\ \A i \in 1..Len(out[c]) : out[c][i].type # "AuthenticationOk"

\* ------------------------------------------------------------------ ReadyForQuery
\* C29: on a connection that has got AuthenticationOk and whose client is
\* still there, the ReadyForQuery messages written are one for the end of the
\* announcements and one for every Query, Sync and message of an unsupported
\* kind read, less the one still to come for a Query whose statement is under
\* way: Parse, Bind, Describe and Execute add none. Each has status "I".
C29_ReadyForQueryCount ==
    \A c \in Conns :
        /\ \A i \in 1..Len(out[c]) :
              out[c][i].type = "ReadyForQuery" => out[c][i].status = "I"
        /\ ((\E k \in 1..Len(out[c]) : out[c][k].type = "AuthenticationOk") /\ ~broken[c]) =>
              LET ready == {i \in 1..Len(out[c]) : out[c][i].type = "ReadyForQuery"}
                  msgs == LoopRecv(c)
                  counted == {i \in 1..Len(msgs) :
                                 msgs[i].type \notin {"Parse", "Bind", "Describe", "Execute",
                                                      "Terminate", "Malformed"}}
                  underway == IF pc[c] \in {"rlock", "rlocked", "exec", "rows"} /\ ~ext[c]
                              THEN 1 ELSE 0
              IN  Cardinality(ready) = 1 + Cardinality(counted) - underway

\* A client has sent Parse of nothing, Execute and a message of an
\* unsupported kind, and has two ReadyForQuery.
C29_Witness ==
    \E c \in Conns :
        /\ LoopRecv(c) = <<Parse(<<>>), Execute, Flush>>
        /\ ~broken[c] /\ pc[c] = "loop"
        /\ Cardinality({i \in 1..Len(out[c]) : out[c][i].type = "ReadyForQuery"}) = 2

\* ------------------------------------------------------------------ frame of the pending statement
\* C30: the pending statement of a connection changes only in the step
\* that reads a Parse on that connection; reading any other message and
\* every step of a statement leave it as it is, and an Execute that starts a
\* statement starts the pending text and keeps it, so that the next Execute
\* starts the same text.
C30_PendingChangedOnlyByParse ==
    [][\A c \in Conns :
          /\ prepared'[c] # prepared[c] =>
                (LoopRead(c) /\ recv'[c][Len(recv'[c])].type = "Parse")
          /\ (LoopRead(c) /\ recv'[c][Len(recv'[c])].type = "Execute" /\ pc'[c] = "rlock") =>
                query'[c] = prepared[c]
      ]_vars

\* After one Parse the client has sent Execute twice: the first statement is
\* complete and the second runs the same text.
C30_Witness ==
    \E c \in Conns :
        /\ LoopRecv(c) = <<Parse(Select), Execute, Execute>>
        /\ pc[c] = "exec" /\ query[c] = Select
        /\ \E i \in 1..Len(out[c]) : out[c][i].type = "CommandComplete"

\* ------------------------------------------------------------------ after an error
\* A client that needs no password and speaks the extended protocol with a
\* statement the engine refuses and one it accepts, whose result may fail in
\* the middle, up to MaxExtMsgs messages.
ErrMessages ==
    {Parse(<<"x">>), Parse(Select), Parse(<<>>), Query(<<"x">>), Bind, Describe("S"),
     Describe("P"), Execute, Sync}

InitErr == InitWith({NoAuth}, {"a.db"}, MaxExtMsgs, {Integer})

NextErr ==
    \/ ServeListen
    \/ ServeAccept("c1")
    \/ ConnStartup("c1", StartupMessage("u"))
    \/ \E m \in ErrMessages : ConnMessage("c1", m)
    \/ ConnRLock("c1")
    \/ ConnCapture("c1")
    \/ ConnExec("c1")
    \/ ConnRow("c1")
    \/ ConnRowFail("c1")
    \/ ConnComplete("c1")

ErrSpec == InitErr /\ [][NextErr]_vars

\* C31: once the query loop has written an ErrorResponse for a statement,
\* every Parse, Bind, Describe and Execute it reads, before a Sync as well as
\* after one, is handled as if nothing had failed: Parse is answered with
\* ParseComplete and sets the pending statement, Bind with BindComplete,
\* Describe with ParameterDescription (and NoData for a statement), and
\* Execute with EmptyQueryResponse for an empty pending statement and with
\* the start of the pending statement otherwise.
C31_NoErrorState ==
    [][\A c \in Conns :
          (/\ LoopRead(c)
           /\ \E i \in 1..Len(out[c]) :
                 out[c][i].type = "ErrorResponse" /\ out[c][i].code = "42601") =>
              LET m == recv'[c][Len(recv'[c])]
              IN  /\ m.type = "Parse" =>
                        /\ Written(c) = << [type |-> "ParseComplete"] >>
                        /\ prepared'[c] = TrimSpace(m.text)
                        /\ pc'[c] = "loop"
                  /\ m.type = "Bind" =>
                        Written(c) = << [type |-> "BindComplete"] >> /\ pc'[c] = "loop"
                  /\ m.type = "Describe" =>
                        /\ Written(c) = IF m.obj = "S"
                                        THEN << [type |-> "ParameterDescription"],
                                                [type |-> "NoData"] >>
                                        ELSE << [type |-> "ParameterDescription"] >>
                        /\ pc'[c] = "loop"
                  /\ m.type = "Execute" =>
                        IF prepared[c] = <<>> \/ prepared[c] = <<";">>
                        THEN Written(c) = << [type |-> "EmptyQueryResponse"] >>
                             /\ pc'[c] = "loop"
                        ELSE Written(c) = <<>> /\ pc'[c] = "rlock"
                             /\ query'[c] = prepared[c]
      ]_vars

\* An Execute ended with an ErrorResponse; without a Sync the client sent
\* Parse of the SELECT, Bind and Execute, was answered ParseComplete and
\* BindComplete, and the SELECT is producing its result.
C31_Witness ==
    \E c \in Conns :
        /\ LoopRecv(c) = <<Parse(<<"x">>), Execute, Parse(Select), Bind, Execute>>
        /\ pc[c] = "rows"
        /\ LET lo == LoopOut(c)
           IN  /\ Len(lo) = 5
               /\ lo[2].type = "ErrorResponse"
               /\ lo[3].type = "ParseComplete" /\ lo[4].type = "BindComplete"
               /\ lo[5].type = "RowDescription"

\* ------------------------------------------------------------------ lifetime of handles
\* C32: however Reload and Close interleave, no handle is closed more than
\* once; a handle that a Reload has superseded is closed by that Reload and
\* by nothing else, and is closed once that Reload has returned.
C32_ClosedOnceByItsReload ==
    [][\A h \in 1..Len(handles) :
          /\ handles'[h].closes <= 1
          /\ (handles'[h].closes > handles[h].closes /\ h # db) =>
                \E r \in Reloaders : rpc[r] = "close" /\ rold[r] = h /\ rpc'[r] = "idle"
          /\ \A r \in Reloaders :
                (rpc[r] = "close" /\ rold[r] = h /\ rpc'[r] = "idle") =>
                    handles'[h].closes = 1
      ]_vars

\* C33: once Close has returned and no Reload is under way, every handle the
\* server has opened is closed, the published one included.
C33_NothingOpenAfterClose ==
    (closePc = "done" /\ \A r \in Reloaders : rpc[r] = "idle") =>
        /\ \A h \in 1..Len(handles) : handles[h].closes >= 1
        /\ db # NoHandle => ~IsOpen(db)

\* ------------------------------------------------------------------ serve command
\* The watcher of the serve command and the server it reloads: files change,
\* the debounce timer runs out, the callback builds, renames and reloads, any
\* of which may fail, and the context may be cancelled.
InitWatch == InitWith({NoAuth}, {serveOutputFile}, MaxMsgs, {Integer})

NextWatch ==
    \/ FsEvent
    \/ TimerFire
    \/ CtxCancel
    \/ WatchCancelled
    \/ WatchEvent
    \/ WatchTimer
    \/ WatchBuildOk
    \/ WatchBuildFail
    \/ WatchRenameOk
    \/ WatchRenameFail
    \/ WatchReloadCall
    \/ ReloadOpenOk(WatcherCaller)
    \/ ReloadOpenFail(WatcherCaller)
    \/ ReloadLock(WatcherCaller)
    \/ ReloadSwap(WatcherCaller)
    \/ ReloadClose(WatcherCaller)
    \/ WatchReloadReturn

WatchSpec == InitWatch /\ [][NextWatch]_vars

\* C34: reading a change event never calls the callback: it leaves the
\* timer restarted, with nothing on timer.C, and the change pending. The
\* callback starts only on a value of the timer, that is when the interval
\* has run out since the last event read, and at least one event has been
\* read since the callback last started: a burst of events read with no
\* expiry in between gets one call, after which no timer is left.
C34_Debounce ==
    [][/\ wQueue' < wQueue =>
             /\ wCalls' = wCalls /\ wpc' = "select"
             /\ wTimerOn' /\ ~wTimerC' /\ wPending'
       /\ wCalls' # wCalls =>
             /\ wCalls' = wCalls + 1
             /\ wTimerC /\ ~wTimerOn /\ wPending
             /\ wSince >= 1
             /\ wQueue' = wQueue
             /\ ~wTimerC' /\ ~wTimerOn' /\ ~wPending'
      ]_vars

\* Two change events were read in one burst and the callback has started
\* once; no timer is left and nothing waits.
C34_Witness ==
    /\ wDelivered = 2 /\ wQueue = 0
    /\ wCalls = 1
    /\ ~wPending /\ ~wTimerOn /\ ~wTimerC

\* The steps of the goroutine of Watcher.Start, cancellation apart.
WatchStep ==
    \/ WatchEvent
    \/ WatchTimer
    \/ WatchBuildOk
    \/ WatchBuildFail
    \/ WatchRenameOk
    \/ WatchRenameFail
    \/ WatchReloadCall
    \/ ReloadOpenOk(WatcherCaller)
    \/ ReloadOpenFail(WatcherCaller)
    \/ ReloadLock(WatcherCaller)
    \/ ReloadSwap(WatcherCaller)
    \/ ReloadClose(WatcherCaller)
    \/ WatchReloadReturn

\* The serve command with the scheduling the Go runtime gives: the goroutine
\* of the watcher runs when it can, the build, the rename and Reload return,
\* and a timer that is set expires.
FairWatchSpec ==
    /\ InitWatch
    /\ [][NextWatch]_vars
    /\ WF_vars(WatchStep)
    /\ WF_vars(TimerFire)

\* C35: Watcher.Start returns only when the context is cancelled, and a
\* callback that returns, with an error or without, leaves it selecting
\* again; and after every change event delivered, a callback starts, unless
\* the context is cancelled first.
C35_NoChangeLost ==
    /\ [][/\ (wpc # "returned" /\ wpc' = "returned") => ctxDone
          /\ (wpc \in {"build", "rename", "reloading"}
                 /\ wpc' \notin {"build", "rename", "reload", "reloading"}) => wpc' = "select"
         ]_vars
    /\ wDirty ~> (~wDirty \/ ctxDone)

\* A change event was delivered while the callback is running and waits on
\* fw.Events; the context is not cancelled.
C35_Witness ==
    /\ wpc \in {"build", "rename", "reload", "reloading"}
    /\ wDirty /\ wQueue = 1
    /\ ~ctxDone

\* C36: the callback starts only when the one before has returned and no
\* Reload of the watcher is under way; Reload is called only by a callback
\* whose build and whose rename have succeeded, in that order; a build or a
\* rename that fails ends the callback with the published handle, the
\* handles and Reload untouched; and the published handle changes only
\* inside the Reload the callback waits for.
C36_ReloadAfterBuildAndRename ==
    [][/\ wCalls' # wCalls => (wpc = "select" /\ rpc[WatcherCaller] = "idle")
       /\ rpc'[WatcherCaller] # "idle" => wpc' = "reloading"
       /\ (rpc[WatcherCaller] = "idle" /\ rpc'[WatcherCaller] # "idle") =>
             (wpc = "reload" /\ wStaged = "renamed")
       /\ (wStaged' = "renamed" /\ wStaged # "renamed") => wStaged = "built"
       /\ (wpc \in {"build", "rename"} /\ wpc' = "select") =>
             (db' = db /\ handles' = handles /\ rpc' = rpc)
       /\ db' # db => wpc = "reloading"
      ]_vars

\* The callback has run twice and returned: once it failed before Reload,
\* once it reloaded, and the second handle is published.
C36_Witness ==
    /\ wCalls = 2 /\ wpc = "select"
    /\ Len(handles) = 2 /\ db = 2
    /\ rpc[WatcherCaller] = "idle"

====
